---- MODULE Spec2Model ----
(***************************************************************************)
(* HealthSync symptom checker.                                             *)
(*                                                                         *)
(* Three parts of the program are modelled, each with its own              *)
(* specification over the same variables:                                  *)
(*   SpecFn     - the pure functions of services/scoring.py, applied to    *)
(*                inputs drawn from bounded sets;                          *)
(*   SpecFlow   - the session flow of engine.py driven by views.py         *)
(*                (start_session, submit_answer, get_or_build_result,      *)
(*                reset_session) over one client's session store;          *)
(*   SpecTriage - the rule-based engine of services/scoring.py             *)
(*                (compute_condition_scores, select_next_question,         *)
(*                _fallback_question) over the domain store.               *)
(*                                                                         *)
(* Free text that the code strips, lower-cases or searches is a sequence   *)
(* of one-character strings; opaque text is a TLA+ string.  Floating-point *)
(* scores are exact rationals: a score is an integer number of tenths, a   *)
(* confidence is a fraction [num, den].                                    *)
(***************************************************************************)
EXTENDS Integers, Sequences, FiniteSets, TLC

VARIABLES
    call,       \* SpecFn: the last pure-function application [fn, args, result]
    store,      \* SpecFlow: request.session of one client (SESSION_KEY present or not)
    lastOp,     \* SpecFlow: what the last request handler did (observation)
    diagCalls,  \* SpecFlow: generate_diagnosis invocations since the session started
    db,         \* SpecTriage: the domain store (symptoms, questions)
    session,    \* SpecTriage: the SymptomSession row
    answers,    \* SpecTriage: the session's SessionAnswer rows, in answered_at order
    returned,   \* SpecTriage: what the last select_next_question returned
    gemini      \* gemini_engine.py: the clock, _DISABLE_UNTIL, the last failed attempt

fnVars == <<call>>
flowVars == <<store, lastOp, diagCalls>>
triageVars == <<db, session, answers, returned>>
geminiVars == <<gemini>>
vars == <<call, store, lastOp, diagCalls, db, session, answers, returned, gemini>>

\* A Python value that is either None or a text.
PyNone == [none |-> TRUE, text |-> <<>>]
PyStr(s) == [none |-> FALSE, text |-> s]

(***************************************************************************)
(* Text                                                                    *)
(***************************************************************************)
UpperChars ==
    <<"A","B","C","D","E","F","G","H","I","J","K","L","M",
      "N","O","P","Q","R","S","T","U","V","W","X","Y","Z">>
LowerChars ==
    <<"a","b","c","d","e","f","g","h","i","j","k","l","m",
      "n","o","p","q","r","s","t","u","v","w","x","y","z">>
Whitespace == {" ", "\t", "\n"}

LowerTable ==
    [c \in {UpperChars[i] : i \in 1..Len(UpperChars)} |->
        LowerChars[CHOOSE i \in 1..Len(UpperChars) : UpperChars[i] = c]]
UpperTable ==
    [c \in {LowerChars[i] : i \in 1..Len(LowerChars)} |->
        UpperChars[CHOOSE i \in 1..Len(LowerChars) : LowerChars[i] = c]]

\* str.lower() of one character.
LowerChar(c) == IF c \in DOMAIN LowerTable THEN LowerTable[c] ELSE c

UpperChar(c) == IF c \in DOMAIN UpperTable THEN UpperTable[c] ELSE c

\* str.lower()
Lower(s) == [i \in 1..Len(s) |-> LowerChar(s[i])]

Upper(s) == [i \in 1..Len(s) |-> UpperChar(s[i])]

\* str.strip(): leading and trailing whitespace removed.
Strip(s) ==
    LET keep == {i \in 1..Len(s) : s[i] \notin Whitespace}
    IN  IF keep = {} THEN <<>>
        ELSE LET lo == CHOOSE i \in keep : \A j \in keep : i <= j
                 hi == CHOOSE i \in keep : \A j \in keep : j <= i
             IN  SubSeq(s, lo, hi)

\* Python's `term in text` for strings.
Contains(text, term) ==
    \E i \in 0..(Len(text) - Len(term)) : SubSeq(text, i + 1, i + Len(term)) = term

\* `x or ""` for a text that may be None.
OrEmpty(x) == IF x.none THEN <<>> ELSE x.text

(***************************************************************************)
(* services/scoring.py: constants and pure functions                       *)
(***************************************************************************)
MAX_QUESTIONS == 8

\* CONFIDENCE_THRESHOLD = 0.70 as the fraction ThresholdNum / ThresholdDen.
ThresholdNum == 7
ThresholdDen == 10

EMERGENCY_TERMS ==
    << <<"c","h","e","s","t"," ","p","a","i","n">>,
       <<"d","i","f","f","i","c","u","l","t","y"," ","b","r","e","a","t","h","i","n","g">>,
       <<"s","h","o","r","t","n","e","s","s"," ","o","f"," ","b","r","e","a","t","h">>,
       <<"u","n","c","o","n","s","c","i","o","u","s">>,
       <<"s","e","i","z","u","r","e">>,
       <<"h","e","a","v","y"," ","b","l","e","e","d","i","n","g">> >>

EMERGENCY_ADVISORY == "Your symptoms may require emergency care. Seek immediate help."

STATUS_ACTIVE == "active"
STATUS_COMPLETED == "completed"
STATUS_EMERGENCY == "emergency"
Statuses == {STATUS_ACTIVE, STATUS_COMPLETED, STATUS_EMERGENCY}

\* A confidence n/d compared with the threshold: n/d >= 0.70.
AtLeastThreshold(conf) == conf.num * ThresholdDen >= ThresholdNum * conf.den

should_stop_strict(status, current_step, top_confidence) ==
    IF status = STATUS_EMERGENCY THEN TRUE
    ELSE IF current_step > MAX_QUESTIONS THEN TRUE
    ELSE AtLeastThreshold(top_confidence)

should_stop(status, current_step, top_confidence) ==
    IF status = STATUS_EMERGENCY THEN TRUE
    ELSE IF current_step >= MAX_QUESTIONS THEN TRUE
    ELSE AtLeastThreshold(top_confidence)

emergency_precheck_cased(initial_symptom) ==
    LET text == Strip(OrEmpty(initial_symptom))
    IN  IF \E t \in 1..Len(EMERGENCY_TERMS) : Contains(text, EMERGENCY_TERMS[t])
        THEN [emergency |-> TRUE, message |-> EMERGENCY_ADVISORY]
        ELSE [emergency |-> FALSE, message |-> ""]

emergency_precheck(initial_symptom) ==
    LET text == Lower(Strip(OrEmpty(initial_symptom)))
    IN  IF \E t \in 1..Len(EMERGENCY_TERMS) : Contains(text, EMERGENCY_TERMS[t])
        THEN [emergency |-> TRUE, message |-> EMERGENCY_ADVISORY]
        ELSE [emergency |-> FALSE, message |-> ""]

(***************************************************************************)
(* SpecFn: the pure functions applied to bounded inputs                    *)
(***************************************************************************)
\* Step counts tried: 0 .. MAX_QUESTIONS + StepSlack.
StepSlack == 2
\* Confidences tried: every fraction n/d with 0 <= n <= d, 1 <= d <= MaxDen.
MaxDen == 10

Confidences == {[num |-> n, den |-> d] : n \in 0..MaxDen, d \in 1..MaxDen}
ConfidenceInputs == {c \in Confidences : c.num <= c.den}

\* Initial complaints tried: pad \o core \o pad.
Pads == { <<>>, <<" ">>, <<"m","y"," ">>, <<"\n">>, <<"X">> }
DropLast(s) == SubSeq(s, 1, Len(s) - 1)
Capitalize(s) == [i \in 1..Len(s) |-> IF i = 1 THEN UpperChar(s[i]) ELSE s[i]]
\* the phrase with its first blank doubled (no longer a substring match)
SplitWide(s) ==
    IF \E i \in 1..Len(s) : s[i] = " "
    THEN LET k == CHOOSE i \in 1..Len(s) : s[i] = " " /\ \A j \in 1..(i - 1) : s[j] # " "
         IN  SubSeq(s, 1, k) \o <<" ">> \o SubSeq(s, k + 1, Len(s))
    ELSE DropLast(s)
Cores ==
    UNION { { EMERGENCY_TERMS[t], Upper(EMERGENCY_TERMS[t]), Capitalize(EMERGENCY_TERMS[t]),
              DropLast(EMERGENCY_TERMS[t]), SplitWide(EMERGENCY_TERMS[t]) }
            : t \in 1..Len(EMERGENCY_TERMS) }
    \cup { <<>>, <<"h","e","a","d","a","c","h","e">> }
ComplaintInputs == {PyStr(a \o c \o b) : a \in Pads, c \in Cores, b \in Pads} \cup {PyNone}

NoCall == [fn |-> "none"]

\* The module state of gemini_engine.py at import, with the clock at 0.
IdleGemini == [now |-> 0, _DISABLE_UNTIL |-> 0]

IdleFlow == [present |-> FALSE]

InitFn ==
    /\ call = NoCall
    /\ store = IdleFlow /\ lastOp = [op |-> "none"] /\ diagCalls = 0
    /\ db = <<>> /\ session = <<>> /\ answers = <<>> /\ returned = <<>>
    /\ gemini = IdleGemini

CallShouldStop ==
    /\ call = NoCall
    /\ \E st \in Statuses, step \in 0..(MAX_QUESTIONS + StepSlack), conf \in ConfidenceInputs :
        call' = [fn |-> "should_stop",
                 args |-> [status |-> st, current_step |-> step, top_confidence |-> conf],
                 result |-> should_stop(st, step, conf)]
    /\ UNCHANGED <<flowVars, triageVars, geminiVars>>

CallEmergencyPrecheck ==
    /\ call = NoCall
    /\ \E text \in ComplaintInputs :
        call' = [fn |-> "emergency_precheck",
                 args |-> [initial_symptom |-> text],
                 result |-> emergency_precheck(text)]
    /\ UNCHANGED <<flowVars, triageVars, geminiVars>>

(***************************************************************************)
(* schemas.py: the dataclasses and their wire (dict) forms.  A dict is a   *)
(* record whose domain is the set of keys present.                         *)
(***************************************************************************)
\* dict.get(key, default)
Get(d, k, default) == IF k \in DOMAIN d THEN d[k] ELSE default

\* An age that is None or an int: <<>> or <<n>>.
NoAge == <<>>

IntakeData_to_dict(x) ==
    [age |-> x.age, gender |-> x.gender, state |-> x.state, symptom |-> x.symptom]

IntakeData_from_dict(data) ==
    [age |-> Get(data, "age", NoAge),
     gender |-> Get(data, "gender", ""),
     state |-> Get(data, "state", ""),
     symptom |-> Get(data, "symptom", <<>>)]

QuestionItem_to_dict(q) ==
    [id |-> q.id, text |-> q.text, type |-> q.type, options |-> q.options]

\* A parser that takes an empty type for a missing one.
QuestionItem_from_dict_or_default(data) ==
    [id |-> Get(data, "id", 0),
     text |-> Get(data, "text", <<>>),
     type |-> IF Get(data, "type", "") = "" THEN "yesno" ELSE data.type,
     options |-> Get(data, "options", <<>>)]

QuestionItem_from_dict(data) ==
    [id |-> Get(data, "id", 0),
     text |-> Get(data, "text", <<>>),
     type |-> Get(data, "type", "yesno"),
     options |-> Get(data, "options", <<>>)]

AnswerItem_to_dict(a) ==
    [question_id |-> a.question_id, question_text |-> a.question_text, answer |-> a.answer]

AnswerItem_from_dict(data) ==
    [question_id |-> Get(data, "question_id", 0),
     question_text |-> Get(data, "question_text", <<>>),
     answer |-> Get(data, "answer", <<>>)]

DiagnosisCondition_to_dict(c) ==
    [name |-> c.name, likelihood |-> c.likelihood,
     reasoning |-> c.reasoning, specialization |-> c.specialization]

DiagnosisCondition_from_dict(data) ==
    [name |-> Get(data, "name", <<>>),
     likelihood |-> Get(data, "likelihood", ""),
     reasoning |-> Get(data, "reasoning", ""),
     specialization |-> Get(data, "specialization", "")]

\* "Consult a qualified doctor for evaluation."
DEFAULT_ADVICE == <<"C","o","n","s","u","l","t"," ","a"," ","q","u","a","l","i","f","i","e","d"," ","d","o","c","t","o","r"," ","f","o","r"," ","e","v","a","l","u","a","t","i","o","n",".">>

DiagnosisResult_to_dict(r) ==
    [conditions |-> [i \in 1..Len(r.conditions) |-> DiagnosisCondition_to_dict(r.conditions[i])],
     urgency |-> r.urgency,
     advice |-> r.advice]

DiagnosisResult_from_dict(data) ==
    LET rows == Get(data, "conditions", <<>>)
    IN  [conditions |-> [i \in 1..Len(rows) |-> DiagnosisCondition_from_dict(rows[i])],
         urgency |-> Get(data, "urgency", "Moderate"),
         advice |-> Get(data, "advice", DEFAULT_ADVICE)]

(***************************************************************************)
(* ai_client.py: the AI adapter.  `reply` is what the external endpoint    *)
(* did for one call of _generate_content_with_retry followed by            *)
(* _parse_json:                                                            *)
(*   [kind |-> "transport_error", message |-> m]  every attempt failed     *)
(*   [kind |-> "unparsable"]                       json.loads raised       *)
(*   [kind |-> "parsed", isList |-> b, isDict |-> b, value |-> v]          *)
(***************************************************************************)
REQUIRED_QUESTIONS == 15

Ok(v) == [ok |-> TRUE, value |-> v, error |-> ""]
Raise(msg) == [ok |-> FALSE, value |-> <<>>, error |-> msg]
\* the loop state of generate_questions: the questions and the signatures seen
Collected(questions, seen) == [ok |-> TRUE, value |-> questions, error |-> "", seen |-> seen]

QUESTION_TYPES == {"yesno", "text", "single_choice"}

\* [str(opt).strip() for opt in options if str(opt).strip()]
StripOptions(opts) ==
    LET F[i \in 0..Len(opts)] ==
            IF i = 0 THEN <<>>
            ELSE IF Strip(opts[i]) = <<>> THEN F[i - 1]
            ELSE Append(F[i - 1], Strip(opts[i]))
    IN  F[Len(opts)]

\* _validate_question(row, idx): the item, or the AIGenerationError raised.
\* (item.type or "yesno").strip().lower() is modelled on the type names the
\* replies carry, which are already stripped and lower-case.
_validate_question(row, idx) ==
    LET item == QuestionItem_from_dict(row)
        text == Strip(item.text)
        type == IF item.type = "" THEN "yesno" ELSE item.type
        opts == StripOptions(item.options)
    IN  IF text = <<>> THEN Raise("AI returned an empty question.")
        ELSE IF type \notin QUESTION_TYPES
             THEN Raise("AI returned unsupported question type")
        ELSE IF type = "single_choice"
             THEN IF Len(opts) < 2 \/ Len(opts) > 4
                  THEN Raise("AI single_choice question must include 2-4 options.")
                  ELSE Ok([id |-> idx, text |-> text, type |-> type, options |-> opts])
        ELSE Ok([id |-> idx, text |-> text, type |-> type, options |-> <<>>])

\* The loop of generate_questions over the parsed rows 1..n: the questions
\* collected so far, or the first error raised.
RECURSIVE ValidateRows(_, _)
ValidateRows(rows, n) ==
    IF n = 0 THEN Collected(<<>>, {})
    ELSE LET before == ValidateRows(rows, n - 1)
             row == rows[n]
         IN  IF ~before.ok THEN before
             ELSE IF ~Get(row, "is_dict", TRUE)
                  THEN Raise("AI question items must be JSON objects.")
             ELSE IF Get(row, "ai_generated", FALSE) # TRUE
                  THEN Raise("AI generation marker missing for question item.")
             ELSE LET q == _validate_question(row, n)
                  IN  IF ~q.ok THEN q
                      ELSE IF Lower(q.value.text) \in before.seen
                           THEN Raise("AI returned duplicate questions.")
                      ELSE Collected(Append(before.value, q.value),
                                     before.seen \cup {Lower(q.value.text)})

\* A generate_questions that takes a list of any length.
generate_questions_any_length(reply) ==
    IF reply.kind = "transport_error" THEN Raise(reply.message)
    ELSE IF reply.kind = "unparsable" THEN Raise("Could not parse AI questions JSON")
    ELSE IF ~reply.isList THEN Raise("AI questions response must be a JSON array.")
    ELSE LET questions == ValidateRows(reply.value, Len(reply.value))
         IN  IF questions.ok THEN Ok(questions.value) ELSE questions

\* generate_questions(intake): the intake shapes the prompt only; the outcome
\* is decided by the endpoint's reply.
generate_questions(reply) ==
    IF reply.kind = "transport_error" THEN Raise(reply.message)
    ELSE IF reply.kind = "unparsable" THEN Raise("Could not parse AI questions JSON")
    ELSE IF ~reply.isList THEN Raise("AI questions response must be a JSON array.")
    ELSE IF Len(reply.value) # REQUIRED_QUESTIONS
         THEN Raise("AI must return exactly 15 questions.")
    ELSE LET questions == ValidateRows(reply.value, Len(reply.value))
         IN  IF questions.ok THEN Ok(questions.value) ELSE questions

URGENCIES == {"Low", "Moderate", "High"}

\* [c for c in diagnosis.conditions if c.name.strip()]
NamedConditions(conds) ==
    LET F[i \in 0..Len(conds)] ==
            IF i = 0 THEN <<>>
            ELSE IF Strip(conds[i].name) = <<>> THEN F[i - 1]
            ELSE Append(F[i - 1], conds[i])
    IN  F[Len(conds)]

\* generate_diagnosis(intake, answers): intake and answers shape the prompt only.
generate_diagnosis(reply) ==
    IF reply.kind = "transport_error" THEN Raise(reply.message)
    ELSE IF reply.kind = "unparsable" THEN Raise("Could not parse AI diagnosis JSON")
    ELSE IF ~reply.isDict THEN Raise("AI diagnosis response must be a JSON object.")
    ELSE IF Get(reply.value, "ai_generated", FALSE) # TRUE
         THEN Raise("AI generation marker missing for diagnosis.")
    ELSE LET parsed == DiagnosisResult_from_dict(reply.value)
             diagnosis == [parsed EXCEPT !.conditions = NamedConditions(parsed.conditions)]
         IN  IF diagnosis.conditions = <<>>
             THEN Raise("AI diagnosis returned no valid conditions.")
             ELSE IF diagnosis.urgency \notin URGENCIES
                  THEN Raise("AI diagnosis returned invalid urgency.")
             ELSE IF Strip(diagnosis.advice) = <<>>
                  THEN Raise("AI diagnosis returned empty advice.")
             ELSE Ok(diagnosis)

(***************************************************************************)
(* question_flow.py                                                        *)
(***************************************************************************)
\* current_question: <<>> for None, <<q>> for the question at the index.
current_question(questions, current_index) ==
    IF current_index < 0 \/ current_index >= Len(questions) THEN <<>>
    ELSE <<questions[current_index + 1]>>

append_answer(answerItems, question, answer_value) ==
    Append(answerItems,
           [question_id |-> question.id, question_text |-> question.text,
            answer |-> answer_value])

\* An index that skips a question.
next_index_skipping(current_index) == current_index + 2

next_index(current_index) == current_index + 1

(***************************************************************************)
(* engine.py: the flow kept in the client's session store.                 *)
(* store = [present |-> FALSE] when SESSION_KEY is not in the session,     *)
(* [present |-> TRUE, flow |-> f] otherwise.                               *)
(***************************************************************************)
NoFlow == [present |-> FALSE]
Saved(flow) == [present |-> TRUE, flow |-> flow]

\* flow["diagnosis"] is None or the diagnosis dict.
NoDiagnosis == [is_none |-> TRUE]
\* bool(flow.get("diagnosis")): a dict with keys is truthy, None is not.
Truthy(diagnosis) == "is_none" \notin DOMAIN diagnosis

EmptyDict == [k \in {} |-> 0]

_initial_state ==
    [intake |-> EmptyDict,
     questions |-> <<>>,
     answers |-> <<>>,
     current_index |-> 0,
     diagnosis |-> NoDiagnosis,
     diagnosis_error |-> "",
     ai_calls |-> [questions |-> 0, diagnosis |-> 0]]

_flow(st) == IF st.present THEN st.flow ELSE _initial_state

\* A start_session that saves the fresh flow before the questions arrive.
start_session_saves_first(st, intake, ai_questions) ==
    LET fresh == [_initial_state EXCEPT !.intake = IntakeData_to_dict(intake)]
    IN  IF ~ai_questions.ok
        THEN [raised |-> TRUE, error |-> ai_questions.error, store |-> Saved(fresh)]
        ELSE [raised |-> FALSE, error |-> "",
              store |-> Saved([fresh EXCEPT
                  !.questions = [i \in 1..Len(ai_questions.value) |->
                                    QuestionItem_to_dict(ai_questions.value[i])],
                  !.ai_calls = [questions |-> 1, diagnosis |-> 0]])]

\* A start_session that builds on the stored flow and resets only part of it.
start_session_keeps_history(st, intake, ai_questions) ==
        IF ~ai_questions.ok
        THEN [raised |-> TRUE, error |-> ai_questions.error, store |-> st]
        ELSE [raised |-> FALSE, error |-> "",
              store |-> Saved(
                 [_flow(st) EXCEPT
                  !.intake = IntakeData_to_dict(intake),
                  !.questions = [i \in 1..Len(ai_questions.value) |->
                                    QuestionItem_to_dict(ai_questions.value[i])],
                  !.current_index = 0,
                  !.ai_calls = [questions |-> 1, diagnosis |-> 0]])]

\* start_session: [raised, error, store]; ai_questions is what its call of
\* generate_questions(intake) came to, and it raises when that raised.
start_session(st, intake, ai_questions) ==
        IF ~ai_questions.ok
        THEN [raised |-> TRUE, error |-> ai_questions.error, store |-> st]
        ELSE [raised |-> FALSE, error |-> "",
              store |-> Saved(
                 [intake |-> IntakeData_to_dict(intake),
                  questions |-> [i \in 1..Len(ai_questions.value) |->
                                    QuestionItem_to_dict(ai_questions.value[i])],
                  answers |-> <<>>,
                  current_index |-> 0,
                  diagnosis |-> NoDiagnosis,
                  diagnosis_error |-> "",
                  ai_calls |-> [questions |-> 1, diagnosis |-> 0]])]

has_active_session(st) ==
    LET flow == _flow(st)
    IN  Len(flow.questions) > 0 /\ DOMAIN flow.intake # {}

\* question_context: what the question page shows (reads only).
question_context(st) ==
    LET flow == _flow(st)
        questions == [i \in 1..Len(flow.questions) |-> QuestionItem_from_dict(flow.questions[i])]
        idx == flow.current_index
        question == current_question(questions, idx)
    IN  [has_session |-> has_active_session(st),
         completed |-> question = <<>>,
         question |-> question,
         step |-> idx + 1,
         total |-> Len(questions)]

\* A submit_answer that reports "not done" when there is no question left.
submit_answer_silent_at_end(st, answer_value) ==
    LET flow == _flow(st)
        questions == [i \in 1..Len(flow.questions) |-> QuestionItem_from_dict(flow.questions[i])]
        answerItems == [i \in 1..Len(flow.answers) |-> AnswerItem_from_dict(flow.answers[i])]
        idx == flow.current_index
        question == current_question(questions, idx)
    IN  IF question = <<>> THEN [store |-> st, done |-> FALSE]
        ELSE LET updated == append_answer(answerItems, question[1], answer_value)
                 saved == [flow EXCEPT
                              !.answers = [i \in 1..Len(updated) |-> AnswerItem_to_dict(updated[i])],
                              !.current_index = next_index(idx)]
             IN  [store |-> Saved(saved), done |-> saved.current_index >= Len(questions)]

\* submit_answer: [store, done].
submit_answer(st, answer_value) ==
    LET flow == _flow(st)
        questions == [i \in 1..Len(flow.questions) |-> QuestionItem_from_dict(flow.questions[i])]
        answerItems == [i \in 1..Len(flow.answers) |-> AnswerItem_from_dict(flow.answers[i])]
        idx == flow.current_index
        question == current_question(questions, idx)
    IN  IF question = <<>> THEN [store |-> st, done |-> TRUE]
        ELSE LET updated == append_answer(answerItems, question[1], answer_value)
                 saved == [flow EXCEPT
                              !.answers = [i \in 1..Len(updated) |-> AnswerItem_to_dict(updated[i])],
                              !.current_index = next_index(idx)]
             IN  [store |-> Saved(saved), done |-> saved.current_index >= Len(questions)]

\* "Assessment unavailable because live AI generation failed. Please retry shortly."
PLACEHOLDER_ADVICE == <<"A","s","s","e","s","s","m","e","n","t"," ","u","n","a","v","a","i","l","a","b","l","e"," ","b","e","c","a","u","s","e"," ","l","i","v","e"," ","A","I"," ","g","e","n","e","r","a","t","i","o","n"," ","f","a","i","l","e","d","."," ","P","l","e","a","s","e"," ","r","e","t","r","y"," ","s","h","o","r","t","l","y",".">>

PlaceholderDiagnosis ==
    DiagnosisResult_to_dict([conditions |-> <<>>, urgency |-> "Moderate",
                             advice |-> PLACEHOLDER_ADVICE])

EmptyResult == [empty |-> TRUE]

\* The payload get_or_build_result returns, as far as the diagnosis decides it
\* (the doctor, article and collectible lookups read other stores and change none).
BuiltPayload(diagnosis_payload, flow, diagnosis_error) ==
    [empty |-> FALSE,
     diagnosis |-> DiagnosisResult_to_dict(DiagnosisResult_from_dict(diagnosis_payload)),
     ai_calls |-> flow.ai_calls,
     ai_error |-> diagnosis_error]

\* the try branch of get_or_build_result: the diagnosis is stored and counted
diagnosis_succeeded(flow, diagnosis) ==
    [flow EXCEPT !.diagnosis = DiagnosisResult_to_dict(diagnosis),
                 !.ai_calls = [@ EXCEPT !.diagnosis = 1]]

\* An except branch that shows the placeholder without storing it.
diagnosis_failed_unsaved(flow, error) == flow

\* An except branch that stores the placeholder and forgets the reason.
diagnosis_failed_no_reason(flow, error) ==
    [flow EXCEPT !.diagnosis = PlaceholderDiagnosis]

\* the except AIGenerationError branch of get_or_build_result
diagnosis_failed(flow, error) ==
    [flow EXCEPT !.diagnosis = PlaceholderDiagnosis,
                 !.diagnosis_error = error]

\* get_or_build_result: [store, result, invoked]; diagnosis is what a call of
\* generate_diagnosis(intake, answers) comes to, invoked whether it was called.
get_or_build_result(st, diagnosis) ==
    LET flow == _flow(st)
    IN  IF ~has_active_session(st)
        THEN [store |-> st, result |-> EmptyResult, invoked |-> FALSE]
        ELSE IF Truthy(flow.diagnosis)
        THEN [store |-> st,
              result |-> BuiltPayload(flow.diagnosis, flow, flow.diagnosis_error),
              invoked |-> FALSE]
        ELSE LET updated == IF diagnosis.ok
                            THEN diagnosis_succeeded(flow, diagnosis.value)
                            ELSE diagnosis_failed(flow, diagnosis.error)
             IN  [store |-> Saved(updated),
                  result |-> BuiltPayload(IF diagnosis.ok
                                          THEN DiagnosisResult_to_dict(diagnosis.value)
                                          ELSE PlaceholderDiagnosis,
                                          updated,
                                          IF diagnosis.ok THEN "" ELSE diagnosis.error),
                  invoked |-> TRUE]

reset_session(st) == NoFlow

(***************************************************************************)
(* views.py: the request handlers, and the inputs a client and the AI      *)
(* endpoint are tried with.                                                *)
(***************************************************************************)
DigitChars == <<"0","1","2","3","4","5","6","7","8","9">>
IsDigit(c) == \E i \in 1..Len(DigitChars) : DigitChars[i] = c
DigitValue(c) == (CHOOSE i \in 1..Len(DigitChars) : DigitChars[i] = c) - 1

\* Whether int(s) accepts s: an optional sign, then digits, single underscores
\* allowed between digits, blanks around it ignored.
IsIntLiteral(raw) ==
    LET s == Strip(raw)
        body == IF Len(s) > 0 /\ s[1] \in {"+", "-"} THEN Tail(s) ELSE s
    IN  /\ Len(body) > 0
        /\ \A i \in 1..Len(body) : IsDigit(body[i]) \/ body[i] = "_"
        /\ body[1] # "_" /\ body[Len(body)] # "_"
        /\ \A i \in 1..(Len(body) - 1) : ~(body[i] = "_" /\ body[i + 1] = "_")

\* int(s) for an accepted s.
IntValue(raw) ==
    LET s == Strip(raw)
        neg == Len(s) > 0 /\ s[1] = "-"
        body == IF Len(s) > 0 /\ s[1] \in {"+", "-"} THEN Tail(s) ELSE s
        F[i \in 0..Len(body)] ==
            IF i = 0 THEN 0
            ELSE IF body[i] = "_" THEN F[i - 1]
            ELSE 10 * F[i - 1] + DigitValue(body[i])
    IN  IF neg THEN 0 - F[Len(body)] ELSE F[Len(body)]

\* POST fields tried for the intake form.
SymptomInputs ==
    { PyStr(<<>>), PyStr(<<" ", " ">>),
      PyStr(<<"n","o","s","e"," ","b","l","e","e","d","i","n","g">>),
      PyStr(<<" ","C","h","e","s","t"," ","p","a","i","n"," ">>) }
AgeInputs == { <<>>, <<"2","1">>, <<"a","b","c">>, <<"2",".","5">> }
GenderInputs == { "Male" }
StateInputs == { "Kerala" }
\* POST "answer" values tried.
AnswerInputs == { PyStr(<<>>), PyStr(<<" ">>), PyStr(<<"n","o">>), PyStr(<<" ","n","o","\n">>) }

\* Replies of the AI endpoint to the question prompt.
QuestionRow(i) ==
    [id |-> i, text |-> <<"q", LowerChars[i]>>, type |-> "yesno",
     options |-> <<>>, ai_generated |-> TRUE]
\* the same questions as the model may send them: ids unset, padded text, a
\* choice question with a blank option, options on a text question
QuestionRowLoose(i) ==
    IF i = 1 THEN [text |-> <<" ", "q", "a", " ">>, ai_generated |-> TRUE]
    ELSE IF i = 2 THEN [id |-> 0, text |-> <<"p", "b">>, type |-> "single_choice",
                        options |-> << <<"x">>, <<" ">>, <<"y", " ">> >>, ai_generated |-> TRUE]
    ELSE IF i = 3 THEN [id |-> 0, text |-> <<"p", "c">>, type |-> "text",
                        options |-> << <<"x">> >>, ai_generated |-> TRUE]
    ELSE [QuestionRow(i) EXCEPT !.id = 0, !.text = <<"p", LowerChars[i]>>]
Rows(n) == [i \in 1..n |-> QuestionRow(i)]
ParsedList(rows) == [kind |-> "parsed", isList |-> TRUE, isDict |-> FALSE, value |-> rows]
ParsedDict(d) == [kind |-> "parsed", isList |-> FALSE, isDict |-> TRUE, value |-> d]
TransportError == [kind |-> "transport_error",
                   message |-> "Gemini rate/quota limit reached (429). Retry shortly."]
Unparsable == [kind |-> "unparsable"]

GoodQuestionReplies ==
    << ParsedList(Rows(REQUIRED_QUESTIONS)),
       ParsedList([i \in 1..REQUIRED_QUESTIONS |-> QuestionRowLoose(i)]) >>
BadQuestionReplies ==
    << TransportError, Unparsable,
      ParsedDict([text |-> <<"q", "a">>, ai_generated |-> TRUE]),
      ParsedList(Rows(5)),
      ParsedList(Rows(REQUIRED_QUESTIONS + 1)),
      ParsedList([Rows(REQUIRED_QUESTIONS) EXCEPT ![3] = [is_dict |-> FALSE]]),
      ParsedList([Rows(REQUIRED_QUESTIONS) EXCEPT ![3] = [@ EXCEPT !.ai_generated = FALSE]]),
      ParsedList([Rows(REQUIRED_QUESTIONS) EXCEPT ![4] = [@ EXCEPT !.text = <<" ">>]]),
      ParsedList([Rows(REQUIRED_QUESTIONS) EXCEPT ![4] = [@ EXCEPT !.type = "scale"]]),
      ParsedList([Rows(REQUIRED_QUESTIONS) EXCEPT
                     ![5] = [@ EXCEPT !.type = "single_choice", !.options = << <<"x">> >>]]),
      ParsedList([Rows(REQUIRED_QUESTIONS) EXCEPT ![6] = [@ EXCEPT !.text = <<"Q", "a", " ">>]]) >>
\* lists of a wrong length whose items are all valid
ShortQuestionReplies ==
    << ParsedList(Rows(0)), ParsedList(Rows(1)), ParsedList(Rows(REQUIRED_QUESTIONS - 1)) >>
QuestionReplies == GoodQuestionReplies \o BadQuestionReplies \o ShortQuestionReplies
\* the replies the flow is driven with: the two good ones, a transport
\* failure and a list of 5
FlowQuestionReplies == {1, 2, 3, 6}
\* what generate_questions comes to for each reply
QuestionOutcomes == [r \in 1..Len(QuestionReplies) |-> generate_questions(QuestionReplies[r])]

\* Replies of the AI endpoint to the diagnosis prompt.
ConditionRow(name) ==
    [name |-> name, likelihood |-> "Medium", reasoning |-> "pattern", specialization |-> "ENT"]
GoodAdvice == <<"r","e","s","t">>
DiagnosisDict(conds, urgency, advice) ==
    [conditions |-> conds, urgency |-> urgency, advice |-> advice, ai_generated |-> TRUE]
GoodDiagnosisReplies ==
    << ParsedDict(DiagnosisDict(<< ConditionRow(<<"f","l","u">>) >>, "Moderate", GoodAdvice)),
      ParsedDict(DiagnosisDict(<< ConditionRow(<<" ">>), ConditionRow(<<"f","l","u">>) >>,
                               "High", GoodAdvice)) >>
BadDiagnosisReplies ==
    << TransportError, Unparsable,
      ParsedList(<< ConditionRow(<<"f","l","u">>) >>),
      ParsedDict([conditions |-> << ConditionRow(<<"f","l","u">>) >>,
                  urgency |-> "Low", advice |-> GoodAdvice]),
      ParsedDict(DiagnosisDict(<< ConditionRow(<<" ">>) >>, "Low", GoodAdvice)),
      ParsedDict(DiagnosisDict(<< >>, "Low", GoodAdvice)),
      ParsedDict(DiagnosisDict(<< ConditionRow(<<"f","l","u">>) >>, "Severe", GoodAdvice)),
      ParsedDict(DiagnosisDict(<< ConditionRow(<<"f","l","u">>) >>, "Low", <<" ">>)) >>
\* replies that leave out a key of the schema
IncompleteDiagnosisReplies ==
    << ParsedDict([conditions |-> << ConditionRow(<<"f","l","u">>) >>, ai_generated |-> TRUE]),
       ParsedDict(DiagnosisDict(<< [name |-> <<"f","l","u">>] >>, "Low", GoodAdvice)) >>
DiagnosisReplies ==
    GoodDiagnosisReplies \o BadDiagnosisReplies \o IncompleteDiagnosisReplies
\* the replies the flow is driven with: the two good ones, a transport
\* failure and a diagnosis with only blank condition names
FlowDiagnosisReplies == {1, 2, 3, 7}
\* what generate_diagnosis comes to for each reply
DiagnosisOutcomes == [k \in 1..Len(DiagnosisReplies) |-> generate_diagnosis(DiagnosisReplies[k])]

NoOp == [op |-> "none"]

InitFlow ==
    /\ store = NoFlow
    /\ lastOp = NoOp
    /\ diagCalls = 0
    /\ call = NoCall
    /\ db = <<>> /\ session = <<>> /\ answers = <<>> /\ returned = <<>>
    /\ gemini = IdleGemini

\* A handler that submits whatever was posted.
HasAnswer_always(answer_value) == TRUE

\* if answer_value:
HasAnswer(answer_value) == answer_value # <<>>

\* views.question, POST with "symptom": the intake form.
PostIntake ==
    \E symptom_raw \in SymptomInputs, age_raw \in AgeInputs,
       gender \in GenderInputs, state \in StateInputs, r \in FlowQuestionReplies :
        LET symptom == Strip(OrEmpty(symptom_raw))
            age_text == Strip(age_raw)
        IN  IF symptom = <<>>
            THEN /\ lastOp' = [op |-> "intake", outcome |-> "symptom_missing",
                               symptom_raw |-> symptom_raw, age_raw |-> age_raw,
                               generated |-> FALSE]
                 /\ UNCHANGED <<store, diagCalls, fnVars, triageVars, geminiVars>>
            ELSE IF age_text # <<>> /\ ~IsIntLiteral(age_text)
            THEN /\ lastOp' = [op |-> "intake", outcome |-> "age_not_number",
                               symptom_raw |-> symptom_raw, age_raw |-> age_raw,
                               generated |-> FALSE]
                 /\ UNCHANGED <<store, diagCalls, fnVars, triageVars, geminiVars>>
            ELSE LET age == IF age_text = <<>> THEN NoAge ELSE <<IntValue(age_text)>>
                     intake == [age |-> age, gender |-> gender, state |-> state,
                                symptom |-> symptom]
                     started == start_session(store, intake, QuestionOutcomes[r])
                 IN  /\ store' = started.store
                     /\ lastOp' = [op |-> "intake",
                                   outcome |-> IF started.raised THEN "ai_error" ELSE "started",
                                   symptom_raw |-> symptom_raw, age_raw |-> age_raw,
                                   generated |-> TRUE,
                                   replaced |-> Truthy(_flow(store).diagnosis),
                                   error |-> started.error,
                                   reply |-> IF started.raised THEN 0 ELSE r]
                     /\ diagCalls' = IF started.raised THEN diagCalls ELSE 0
                     /\ UNCHANGED <<fnVars, triageVars, geminiVars>>

\* views.question, POST with "answer".
PostAnswer ==
    \E answer_raw \in AnswerInputs :
        IF ~has_active_session(store)
        THEN /\ lastOp' = [op |-> "answer", outcome |-> "redirect_home",
                           answer_raw |-> answer_raw]
             /\ UNCHANGED <<store, diagCalls, fnVars, triageVars, geminiVars>>
        ELSE LET answer_value == Strip(OrEmpty(answer_raw))
                 submitted == HasAnswer(answer_value)
                 r == IF submitted THEN submit_answer(store, answer_value)
                      ELSE [store |-> store, done |-> FALSE]
                 context == question_context(r.store)
             IN  /\ store' = r.store
                 /\ lastOp' = [op |-> "answer",
                               outcome |-> IF r.done \/ context.completed
                                           THEN "redirect_result" ELSE "question",
                               answer_raw |-> answer_raw,
                               index_before |-> _flow(store).current_index,
                               submitted |-> submitted,
                               done |-> r.done]
                 /\ UNCHANGED <<diagCalls, fnVars, triageVars, geminiVars>>

\* views.question, GET: shows the current question.
GetQuestion ==
    LET context == question_context(store)
    IN  /\ lastOp' = [op |-> "question",
                      outcome |-> IF ~context.has_session THEN "redirect_home"
                                  ELSE IF context.completed THEN "redirect_result"
                                  ELSE "question",
                      step |-> context.step]
        /\ UNCHANGED <<store, diagCalls, fnVars, triageVars, geminiVars>>

\* views.result_page.
GetResultPage ==
    \E k \in FlowDiagnosisReplies :
        IF ~has_active_session(store)
        THEN /\ lastOp' = [op |-> "result", outcome |-> "redirect_home"]
             /\ UNCHANGED <<store, diagCalls, fnVars, triageVars, geminiVars>>
        ELSE LET ai == DiagnosisOutcomes[k]
                 r == get_or_build_result(store, ai)
             IN  /\ store' = r.store
                 /\ lastOp' = [op |-> "result",
                               outcome |-> IF r.result.empty THEN "redirect_home" ELSE "rendered",
                               invoked |-> r.invoked,
                               ai_failed |-> r.invoked /\ ~ai.ok,
                               error |-> IF r.invoked THEN ai.error ELSE "",
                               result |-> r.result]
                 /\ diagCalls' = IF r.invoked THEN diagCalls + 1 ELSE diagCalls
                 /\ UNCHANGED <<fnVars, triageVars, geminiVars>>

\* views.reset_flow.
ResetFlow ==
    /\ store' = reset_session(store)
    /\ lastOp' = [op |-> "reset", outcome |-> "redirect_home"]
    /\ diagCalls' = 0
    /\ UNCHANGED <<fnVars, triageVars, geminiVars>>

NextFlow ==
    \/ PostIntake
    \/ PostAnswer
    \/ GetQuestion
    \/ GetResultPage
    \/ ResetFlow

SpecFlow == InitFlow /\ [][NextFlow]_vars

(***************************************************************************)
(* Claims about the session flow (SpecFlow)                                *)
(***************************************************************************)
\* C5: when the initial symptom triggers the emergency pre-check, session
\* start asks no question: no question is generated or stored for that intake.
C5_EmergencyIntakeAsksNoQuestion ==
    (store.present /\ emergency_precheck(PyStr(store.flow.intake.symptom)).emergency)
        => /\ store.flow.questions = <<>>
           /\ store.flow.ai_calls.questions = 0

\* C7: a start_session in which generate_questions raises AIGenerationError
\* leaves the session store exactly as it was (no flow created, none changed).
C7_FailedStartLeavesStore ==
    [][(lastOp'.op = "intake" /\ lastOp'.outcome = "ai_error") => store' = store]_vars

\* C7 witness: question generation failed while a half-answered flow was stored.
C7_Witness ==
    /\ lastOp.op = "intake" /\ lastOp.outcome = "ai_error"
    /\ store.present /\ Len(store.flow.answers) > 0

\* C8: within one session generate_diagnosis is invoked at most once; a result
\* request made when a diagnosis is stored invokes nothing, returns the stored
\* diagnosis and leaves the store alone; a stored successful diagnosis comes
\* with ai_calls.diagnosis = 1.
C8_DiagnosisAtMostOnce ==
    /\ [](diagCalls <= 1)
    /\ []((store.present /\ Truthy(store.flow.diagnosis)
              /\ store.flow.diagnosis.conditions # <<>>)
            => (store.flow.ai_calls.diagnosis = 1 /\ diagCalls = 1))
    /\ [][(store.present /\ Truthy(store.flow.diagnosis) /\ lastOp'.op = "result")
            => /\ ~lastOp'.invoked
               /\ store' = store
               /\ lastOp'.result.diagnosis = store.flow.diagnosis]_vars

\* C8 witness: a result request served from the stored diagnosis, after more
\* answers were submitted.
C8_Witness ==
    /\ lastOp.op = "result" /\ lastOp.outcome = "rendered" /\ ~lastOp.invoked
    /\ diagCalls = 1
    /\ store.flow.ai_calls.diagnosis = 1
    /\ Len(store.flow.answers) = Len(store.flow.questions)

\* C9: after a successful start_session the stored flow holds exactly the
\* generated questions in their order (numbered 1..n), no answers,
\* current_index 0, no diagnosis, no diagnosis error, and counters 1 and 0.
C9_FreshFlowAfterStart ==
    (lastOp.op = "intake" /\ lastOp.outcome = "started")
        => LET generated == generate_questions(QuestionReplies[lastOp.reply]).value
               flow == store.flow
           IN  /\ store.present
               /\ Len(flow.questions) = Len(generated)
               /\ \A i \in 1..Len(generated) :
                      /\ flow.questions[i] = QuestionItem_to_dict(generated[i])
                      /\ flow.questions[i].id = i
               /\ flow.answers = <<>>
               /\ flow.current_index = 0
               /\ ~Truthy(flow.diagnosis)
               /\ flow.diagnosis_error = ""
               /\ flow.ai_calls = [questions |-> 1, diagnosis |-> 0]

\* C9 witness: a session started from the loosely formatted reply.
C9_Witness ==
    /\ lastOp.op = "intake" /\ lastOp.outcome = "started" /\ lastOp.reply = 2
    /\ store.present /\ Len(store.flow.questions) = REQUIRED_QUESTIONS

\* C10: when generate_diagnosis raises, get_or_build_result stores the
\* placeholder diagnosis (no conditions, urgency Moderate, the retry-later
\* advice), records the reason as diagnosis_error and returns a payload.
C10_PlaceholderOnFailure ==
    (lastOp.op = "result" /\ lastOp.outcome = "rendered" /\ lastOp.ai_failed)
        => /\ store.present
           /\ store.flow.diagnosis =
                 [conditions |-> <<>>, urgency |-> "Moderate", advice |-> PLACEHOLDER_ADVICE]
           /\ lastOp.error # ""
           /\ store.flow.diagnosis_error = lastOp.error
           /\ ~lastOp.result.empty
           /\ lastOp.result.diagnosis = store.flow.diagnosis
           /\ lastOp.result.ai_error = lastOp.error

\* C10 witness: a result page rendered although the diagnosis call failed.
C10_Witness ==
    /\ lastOp.op = "result" /\ lastOp.outcome = "rendered" /\ lastOp.ai_failed
    /\ store.present /\ Truthy(store.flow.diagnosis)

(***************************************************************************)
(* Claims about the pure functions, checked under SpecFn                   *)
(***************************************************************************)

\* C3: should_stop returns true exactly when the status is emergency, or
\* current_step >= MAX_QUESTIONS, or top_confidence >= CONFIDENCE_THRESHOLD; so
\* it is true at current_step = MAX_QUESTIONS for any confidence and for an
\* emergency at any step count.
C3_StopPolicy ==
    call.fn = "should_stop"
        => LET a == call.args
           IN  /\ call.result <=>
                     \/ a.status = STATUS_EMERGENCY
                     \/ a.current_step >= MAX_QUESTIONS
                     \/ a.top_confidence.num * ThresholdDen >= ThresholdNum * a.top_confidence.den
               /\ a.current_step = MAX_QUESTIONS => call.result
               /\ a.status = STATUS_EMERGENCY => call.result

\* C3 witness: an active session exactly at the step cap with a confidence
\* below the threshold, for which the policy says stop.
C3_Witness ==
    /\ call.fn = "should_stop"
    /\ call.args.status = STATUS_ACTIVE
    /\ call.args.current_step = MAX_QUESTIONS
    /\ call.args.top_confidence = [num |-> 1, den |-> 2]
    /\ call.result

\* The text holds the phrase somewhere, letter case ignored.
HoldsPhrase(text, phrase) ==
    \E i \in 0..(Len(text) - Len(phrase)) :
        \A k \in 1..Len(phrase) : UpperChar(text[i + k]) = UpperChar(phrase[k])

\* C6: emergency_precheck returns emergency = true with the fixed advisory
\* exactly when the initial symptom holds one of the emergency phrases as a
\* substring, letter case ignored; otherwise (also for empty or missing text)
\* emergency = false with an empty message.
C6_EmergencyPrecheck ==
    call.fn = "emergency_precheck"
        => LET x == call.args.initial_symptom
               hit == ~x.none /\ \E t \in 1..Len(EMERGENCY_TERMS) :
                                     HoldsPhrase(x.text, EMERGENCY_TERMS[t])
           IN  /\ call.result.emergency <=> hit
               /\ call.result.emergency =>
                     call.result.message =
                         "Your symptoms may require emergency care. Seek immediate help."
               /\ ~call.result.emergency => call.result.message = ""

\* C6 witness: an upper-case phrase inside a longer complaint is recognised.
C6_Witness ==
    /\ call.fn = "emergency_precheck"
    /\ call.args.initial_symptom =
          PyStr(<<"m","y"," ">> \o Upper(EMERGENCY_TERMS[5]) \o <<"\n">>)
    /\ call.result.emergency

(***************************************************************************)
(* gemini_engine.py: the adaptive question generator and its cool-down.    *)
(* gemini = [now, _DISABLE_UNTIL]: time.time() in whole seconds and the     *)
(* module global.  `reply` is what the endpoint does when it is called:    *)
(*   [kind |-> "no_client"]        no API key or no client library         *)
(*   [kind |-> "transport_error"]  generate_content raised                 *)
(*   [kind |-> "unparsable"]       json.loads raised                       *)
(*   [kind |-> "parsed", isDict |-> b, value |-> the JSON object]          *)
(***************************************************************************)
COOLDOWN_SECONDS == 30

_can_call_gemini(g) == g.now >= g._DISABLE_UNTIL

_disable_temporarily(g) == [g EXCEPT !._DISABLE_UNTIL = g.now + COOLDOWN_SECONDS]

EmptyGenerated == [text |-> <<>>, answer_type |-> "yes_no", options |-> <<>>]

ADAPTIVE_YES_NO == <<"y", "e", "s", "_", "n", "o">>
ADAPTIVE_SINGLE_CHOICE == <<"s", "i", "n", "g", "l", "e", "_", "c", "h", "o", "i", "c", "e">>

\* generate_adaptive_question: [generated, used, gemini, invoked]; invoked
\* tells whether the endpoint was called.
generate_adaptive_question(g, reply) ==
    LET Skipped == [generated |-> EmptyGenerated, used |-> FALSE, gemini |-> g,
                    invoked |-> FALSE]
        Failed(g2) == [generated |-> EmptyGenerated, used |-> FALSE,
                       gemini |-> g2, invoked |-> TRUE]
        Generated(text, type, opts) ==
            [generated |-> [text |-> text, answer_type |-> type, options |-> opts],
             used |-> TRUE, gemini |-> g, invoked |-> TRUE]
    IN  IF ~_can_call_gemini(g) THEN Skipped
        ELSE IF reply.kind = "no_client" THEN Skipped
        ELSE IF reply.kind \in {"transport_error", "unparsable"}
             THEN Failed(_disable_temporarily(g))
        \* parsed.get on a value that is no JSON object raises
        ELSE IF ~reply.isDict THEN Failed(_disable_temporarily(g))
        ELSE LET parsed == reply.value
                 q_text == Strip(Get(parsed, "text", <<>>))
                 q_type == Lower(Strip(Get(parsed, "answer_type", <<>>)))
                 q_options == StripOptions(Get(parsed, "options", <<>>))
             IN  IF Get(parsed, "ai_generated", FALSE) # TRUE THEN Failed(g)
                 ELSE IF q_text = <<>> \/ q_type \notin {ADAPTIVE_YES_NO, ADAPTIVE_SINGLE_CHOICE}
                      THEN Failed(g)
                 ELSE IF q_type = ADAPTIVE_YES_NO THEN Generated(q_text, "yes_no", <<>>)
                 ELSE IF Len(q_options) < 2 \/ Len(q_options) > 5 THEN Failed(g)
                 ELSE Generated(q_text, "single_choice", q_options)

(***************************************************************************)
(* services/scoring.py: the rule-based engine over the domain store.       *)
(*                                                                         *)
(* db = [nconds, symptoms, links, questions, areas, snapshots]:            *)
(*   Condition rows are 1..nconds; symptoms and questions are sequences    *)
(*   of rows whose id is their index; links is the set of ConditionSymptom *)
(*   rows [condition, symptom, weight, is_red_flag]; snapshots maps a      *)
(*   condition to its ConditionScoreSnapshot.  A queryset without an       *)
(*   order_by is read in id order.  Weights are whole numbers; a score is  *)
(*   kept in tenths so that the factor 0.7 is exact.                       *)
(***************************************************************************)
ANSWER_YES_NO == "yes_no"
ANSWER_SINGLE_CHOICE == "single_choice"
ANSWER_TEXT == "text"

TRUE_TOKENS == { <<"y","e","s">>, <<"t","r","u","e">>, <<"1">> }
FALSE_TOKENS == { <<"n","o">>, <<"f","a","l","s","e">>, <<"0">> }

\* A normaliser that reads every answer type as yes/no.
normalize_answer_any_type(answer_value, answer_type) ==
    IF answer_value.none THEN "none"
    ELSE LET normalized == Lower(Strip(answer_value.text))
         IN  IF normalized \in TRUE_TOKENS THEN "true"
             ELSE IF normalized \in FALSE_TOKENS THEN "false"
             ELSE "none"

\* A normaliser that compares the stripped answer as typed.
normalize_answer_cased(answer_value, answer_type) ==
    IF answer_type # ANSWER_YES_NO THEN "none"
    ELSE IF answer_value.none THEN "none"
    ELSE LET normalized == Strip(answer_value.text)
         IN  IF normalized \in TRUE_TOKENS THEN "true"
             ELSE IF normalized \in FALSE_TOKENS THEN "false"
             ELSE "none"

\* normalize_answer: "true", "false" or "none" (Python's True, False, None).
normalize_answer(answer_value, answer_type) ==
    IF answer_type # ANSWER_YES_NO THEN "none"
    ELSE IF answer_value.none THEN "none"
    ELSE LET normalized == Lower(Strip(answer_value.text))
         IN  IF normalized \in TRUE_TOKENS THEN "true"
             ELSE IF normalized \in FALSE_TOKENS THEN "false"
             ELSE "none"

AllConditions(d) == 1..d.nconds

\* Symptom.objects.filter(name__icontains=text)
SymptomsContaining(d, text) ==
    {i \in 1..Len(d.symptoms) : Contains(Lower(d.symptoms[i].name), Lower(text))}

\* A candidate set that stays empty when nothing is linked.
_candidate_condition_ids_closed(d, sess) ==
    LET symptom_ids == SymptomsContaining(d, sess.initial_symptom)
    IN  {l.condition : l \in {x \in d.links : x.symptom \in symptom_ids}}

_candidate_condition_ids(d, sess) ==
    IF sess.initial_symptom = <<>> THEN AllConditions(d)
    ELSE LET symptom_ids == SymptomsContaining(d, sess.initial_symptom)
             candidate_ids == {l.condition : l \in {x \in d.links : x.symptom \in symptom_ids}}
         IN  IF symptom_ids = {} THEN AllConditions(d)
             ELSE IF candidate_ids = {} THEN AllConditions(d)
             ELSE candidate_ids

Max(a, b) == IF a >= b THEN a ELSE b
Abs(a) == IF a >= 0 THEN a ELSE 0 - a

RECURSIVE SumOf(_, _)
\* sum of f over the finite set S (f a function on S)
SumOf(f, S) ==
    IF S = {} THEN 0
    ELSE LET x == CHOOSE y \in S : TRUE IN f[x] + SumOf(f, S \ {x})

\* A normalisation without the +1 smoothing.
_confidence_map_unsmoothed(scores) ==
    LET adjusted == [c \in DOMAIN scores |-> Max(scores[c], 0)]
        total == SumOf(adjusted, DOMAIN scores)
    IN  [c \in DOMAIN scores |->
            IF total <= 0 THEN [num |-> 0, den |-> 1]
            ELSE [num |-> adjusted[c], den |-> total]]

\* A map that leaves the adjusted scores undivided by their total.
_confidence_map_unnormalised(scores) ==
    [c \in DOMAIN scores |-> [num |-> Max(scores[c], 0) + 10, den |-> 10]]

\* _confidence_map: score (tenths) |-> confidence, the fraction
\* (max(score, 0) + 1) / total.
_confidence_map(scores) ==
    LET adjusted == [c \in DOMAIN scores |-> Max(scores[c], 0) + 10]
        total == SumOf(adjusted, DOMAIN scores)
    IN  [c \in DOMAIN scores |->
            IF total <= 0 THEN [num |-> 0, den |-> 1]
            ELSE [num |-> adjusted[c], den |-> total]]

\* What one answer adds to the score of condition c, in tenths, and whether it
\* hits a red flag: the inner loop of compute_condition_scores.
Mappings(d, candidate_ids, ans) ==
    {l \in d.links : l.condition \in candidate_ids
                     /\ l.symptom = d.questions[ans.question_id].symptom}

\* A delta that subtracts the full base for a "no".
AnswerDelta_symmetric(d, ans, mapping) ==
    LET base == mapping.weight * d.questions[ans.question_id].weight
    IN  IF ans.normalized_bool = "true" THEN 10 * base
        ELSE IF ans.normalized_bool = "false" THEN 0 - 10 * base
        ELSE 0

AnswerDelta(d, ans, mapping) ==
    LET base == mapping.weight * d.questions[ans.question_id].weight
    IN  IF ans.normalized_bool = "true" THEN 10 * base
        ELSE IF ans.normalized_bool = "false" THEN 0 - 7 * base
        ELSE 0

RedFlagHit(d, candidate_ids, rows) ==
    \E i \in 1..Len(rows) :
        /\ rows[i].normalized_bool = "true"
        /\ \E l \in Mappings(d, candidate_ids, rows[i]) : l.is_red_flag

Scores(d, candidate_ids, rows) ==
    [c \in candidate_ids \cap AllConditions(d) |->
        LET perAnswer ==
                [i \in 1..Len(rows) |->
                    LET ms == {l \in Mappings(d, candidate_ids, rows[i]) : l.condition = c}
                    IN  SumOf([l \in ms |-> AnswerDelta(d, rows[i], l)], ms)]
        IN  SumOf(perAnswer, 1..Len(rows))]

\* A ranking left in id order.
Ranked_by_id(scores, confidence) ==
    LET ids == DOMAIN scores
        position(c) == Cardinality({b \in ids : b < c}) + 1
    IN  [k \in 1..Cardinality(ids) |->
            LET c == CHOOSE x \in ids : position(x) = k
            IN  [condition |-> c, score |-> scores[c], confidence |-> confidence[c]]]

\* sorted(rows, key=score, reverse=True): stable, so equal scores keep id order.
Ranked(scores, confidence) ==
    LET ids == DOMAIN scores
        Before(a, b) == scores[a] > scores[b] \/ (scores[a] = scores[b] /\ a < b)
        position(c) == Cardinality({b \in ids : Before(b, c)}) + 1
    IN  [k \in 1..Cardinality(ids) |->
            LET c == CHOOSE x \in ids : position(x) = k
            IN  [condition |-> c, score |-> scores[c], confidence |-> confidence[c]]]

RED_FLAG_MESSAGE == "A red-flag symptom was detected. Seek emergency care immediately."

\* compute_condition_scores: [ranked, session, snapshots].
compute_condition_scores(d, sess, rows) ==
    LET candidate_ids == _candidate_condition_ids(d, sess)
        scores == Scores(d, candidate_ids, rows)
        red_flag_hit == RedFlagHit(d, candidate_ids, rows)
        confidence == _confidence_map(scores)
        ranked == Ranked(scores, confidence)
        flagged == red_flag_hit /\ sess.status # STATUS_EMERGENCY
    IN  [ranked |-> ranked,
         snapshots |-> [c \in DOMAIN d.snapshots \cup DOMAIN scores |->
                           IF c \in DOMAIN scores
                           THEN [score |-> scores[c], confidence |-> confidence[c]]
                           ELSE d.snapshots[c]],
         session |-> [sess EXCEPT
             !.top_confidence = IF ranked = <<>> THEN [num |-> 0, den |-> 1]
                                ELSE ranked[1].confidence,
             !.status = IF flagged THEN STATUS_EMERGENCY ELSE @,
             !.emergency_message = IF flagged THEN RED_FLAG_MESSAGE ELSE @]]

ACTIVE_LIMIT == 5

_active_condition_set(d, scored_rows) ==
    IF scored_rows = <<>> THEN AllConditions(d)
    ELSE {scored_rows[k].condition : k \in 1..Len(scored_rows) \cap 1..ACTIVE_LIMIT}

\* Questions the loop of select_next_question walks: active and unanswered.
QuestionCandidates(d, answered_question_ids) ==
    {q \in 1..Len(d.questions) : d.questions[q].active /\ q \notin answered_question_ids}

LinkedConditionIds(d, q) ==
    {l.condition : l \in {x \in d.links : x.symptom = d.questions[q].symptom}}

\* The score is computed in binary floating point (IEEE 754 double):
\*   ratio = overlap / total_active; 1.0 - abs(ratio - 0.5) * 2; * 2.0; + weight
\* For up to ACTIVE_LIMIT active conditions and a whole weight of 0..4 the
\* result is the exact value rounded down (-1), rounded up (1) or exact (0).
\* Two exactly equal scores can so differ in the last bit: with three active
\* conditions an overlap of 2 scores above an overlap of 1.
FloatRounding(overlap, total_active, weight) ==
    IF total_active = 3 /\ overlap = 1 THEN 0 - 1
    ELSE IF total_active = 3 /\ overlap = 2 THEN 1
    ELSE IF total_active = 5 /\ overlap = 1 THEN (IF weight <= 1 THEN 1 ELSE 0 - 1)
    ELSE IF total_active = 5 /\ overlap \in {2, 3} THEN (IF weight <= 2 THEN 1 ELSE 0 - 1)
    ELSE IF total_active = 5 /\ overlap = 4 THEN 0 - 1
    ELSE 0

\* A score that leaves out the split quality.
QuestionScore_weight_only(d, q, active_conditions) ==
    3 * d.questions[q].weight * Max(Cardinality(active_conditions), 1)

\* question_score as a whole number: 3 * total_active * the exact value, plus
\* the direction the floating-point result is rounded in.
\*   split_quality = 1 - |overlap/total_active - 1/2| * 2
\*                 = (total_active - |2*overlap - total_active|) / total_active
QuestionScore(d, q, active_conditions) ==
    LET total_active == Max(Cardinality(active_conditions), 1)
        overlap == Cardinality(active_conditions \cap LinkedConditionIds(d, q))
        split_quality == total_active - Abs(2 * overlap - total_active)
        information_proxy == Max(split_quality, 0)
    IN  3 * (information_proxy * 2 + d.questions[q].weight * total_active)
          + FloatRounding(overlap, total_active, d.questions[q].weight)

\* A loop that replaces the best question on an equal score as well.
BestQuestion_last(d, answered_question_ids, active_conditions) ==
    LET scored == {q \in QuestionCandidates(d, answered_question_ids) :
                      LinkedConditionIds(d, q) # {}}
        best == {q \in scored : \A o \in scored :
                    QuestionScore(d, o, active_conditions) <= QuestionScore(d, q, active_conditions)}
    IN  IF scored = {} THEN <<>>
        ELSE <<CHOOSE q \in best : \A o \in best : q >= o>>

\* The loop keeps the first question with the strictly highest score; the
\* initial best_score of -1.0 is below every score of a non-negative weight.
BestQuestion(d, answered_question_ids, active_conditions) ==
    LET scored == {q \in QuestionCandidates(d, answered_question_ids) :
                      /\ LinkedConditionIds(d, q) # {}
                      /\ QuestionScore(d, q, active_conditions)
                            > 0 - 3 * Max(Cardinality(active_conditions), 1)}
        best == {q \in scored : \A o \in scored :
                    QuestionScore(d, o, active_conditions) <= QuestionScore(d, q, active_conditions)}
    IN  IF scored = {} THEN <<>>
        ELSE <<CHOOSE q \in best : \A o \in best : q <= o>>

RECURSIVE DecimalDigits(_)
DecimalDigits(n) ==
    IF n < 10 THEN <<DigitChars[n + 1]>>
    ELSE Append(DecimalDigits(n \div 10), DigitChars[(n % 10) + 1])

STILL_EXPERIENCING_HEAD == <<"A", "r", "e", " ", "y", "o", "u", " ", "s", "t", "i", "l", "l", " ", "e", "x", "p", "e", "r", "i", "e", "n", "c", "i", "n", "g", " ">>
STILL_EXPERIENCING_TAIL == <<" ", "r", "i", "g", "h", "t", " ", "n", "o", "w", "?">>

GENERAL_AREA == "General"

NoQuestion == <<>>
Found(d, sess, q) == [question |-> q, db |-> d, session |-> sess, raised |-> FALSE]
MultipleObjectsReturned(d, sess) == [question |-> NoQuestion, db |-> d, session |-> sess, raised |-> TRUE]
\* the outcome together with the state the generator module is left in, and
\* what generate_adaptive_question did: "none" (not called), "empty" (it
\* returned the empty question) or "generated"
WithGemini(out, g, ai) ==
    [question |-> out.question, db |-> out.db, session |-> out.session,
     raised |-> out.raised, gemini |-> g, ai |-> ai]

\* A fallback that goes on with whatever the generator returned.
NothingGenerated_never(generated) == FALSE

\* if not generated.get("text")
NothingGenerated(generated) == generated.text = <<>>

\* First id of a set of row ids (.first() on a queryset in id order).
FirstId(ids) == CHOOSE i \in ids : \A o \in ids : i <= o

RECURSIVE UniqueText(_, _, _, _, _)
\* The while-loop of _fallback_question looking for a text not yet answered.
UniqueText(d, symptom, q_text, answered_question_ids, attempt) ==
    LET unique_text == IF attempt = 1 THEN q_text
                       ELSE q_text \o <<" ", "(">> \o DecimalDigits(attempt) \o <<")">>
        found == {q \in 1..Len(d.questions) :
                     /\ d.questions[q].symptom = symptom
                     /\ d.questions[q].text = unique_text
                     /\ d.questions[q].active}
    IN  IF found = {} \/ FirstId(found) \notin answered_question_ids THEN unique_text
        ELSE UniqueText(d, symptom, q_text, answered_question_ids, attempt + 1)

\* DiagnosticQuestion.objects.get_or_create(text=, symptom=, defaults=)
QuestionGetOrCreate(d, sess, unique_text, symptom, answer_type, options) ==
    LET found == {q \in 1..Len(d.questions) :
                     /\ d.questions[q].symptom = symptom
                     /\ d.questions[q].text = unique_text}
        created == [text |-> unique_text, symptom |-> symptom, answer_type |-> answer_type,
                    weight |-> 1, active |-> TRUE, options |-> options]
    IN  IF Cardinality(found) > 1 THEN MultipleObjectsReturned(d, sess)
        ELSE IF found # {} THEN Found(d, sess, <<FirstId(found)>>)
        ELSE Found([d EXCEPT !.questions = Append(@, created)], sess,
                   <<Len(d.questions) + 1>>)

\* _fallback_question; reply is what the AI endpoint does if it is called.
_fallback_question(d, sess, answered_question_ids, g, reply) ==
    LET adaptive == generate_adaptive_question(g, reply)
        generated == adaptive.generated
        symptom_name == Strip(sess.initial_symptom)
        known == {i \in 1..Len(d.symptoms) : Lower(d.symptoms[i].name) = Lower(symptom_name)}
        symptom == IF known # {} THEN FirstId(known) ELSE Len(d.symptoms) + 1
        d1 == [d EXCEPT !.areas = @ \cup {GENERAL_AREA},
                        !.symptoms = IF known # {} THEN @
                                     ELSE Append(@, [name |-> symptom_name,
                                                     body_area |-> GENERAL_AREA])]
        open == {q \in QuestionCandidates(d1, answered_question_ids) :
                    d1.questions[q].symptom = symptom}
        heaviest == {q \in open : \A o \in open : d1.questions[o].weight <= d1.questions[q].weight}
        model_answer_type == IF generated.answer_type = "single_choice"
                             THEN ANSWER_SINGLE_CHOICE ELSE ANSWER_YES_NO
        q_text == IF Strip(generated.text) # <<>> THEN Strip(generated.text)
                  ELSE STILL_EXPERIENCING_HEAD \o symptom_name \o STILL_EXPERIENCING_TAIL
        ai == IF adaptive.used THEN "generated" ELSE "empty"
    IN  IF symptom_name = <<>> THEN WithGemini(Found(d, sess, NoQuestion), g, "none")
        ELSE IF open # {} THEN WithGemini(Found(d1, sess, <<FirstId(heaviest)>>), g, "none")
        ELSE IF NothingGenerated(generated)
             THEN WithGemini(Found(d1, sess, NoQuestion), adaptive.gemini, ai)
        ELSE WithGemini(QuestionGetOrCreate(d1, sess,
                            UniqueText(d1, symptom, q_text, answered_question_ids, 1),
                            symptom, model_answer_type, generated.options),
                        adaptive.gemini, ai)

AnsweredQuestionIds(rows) == {rows[i].question_id : i \in 1..Len(rows)}

\* A selector without the step cap.
StepCapReached_never(sess) == FALSE

\* if session.current_step >= MAX_QUESTIONS
StepCapReached(sess) == sess.current_step >= MAX_QUESTIONS

\* select_next_question: [question, db, session, raised, gemini, ai].
select_next_question(d, sess, rows, g, reply) ==
    IF StepCapReached(sess)
    THEN WithGemini(Found(d, sess, NoQuestion), g, "none")
    ELSE LET answered_question_ids == AnsweredQuestionIds(rows)
             scored == compute_condition_scores(d, sess, rows)
             d1 == [d EXCEPT !.snapshots = scored.snapshots]
             active_conditions == _active_condition_set(d, scored.ranked)
             best_question == BestQuestion(d1, answered_question_ids, active_conditions)
         IN  IF best_question # NoQuestion
             THEN WithGemini(Found(d1, scored.session, best_question), g, "none")
             ELSE _fallback_question(d1, scored.session, answered_question_ids, g, reply)

(***************************************************************************)
(* The triage session driven over a stored question bank.  The caller of   *)
(* scoring.py and the Django models are not part of the sources at hand;   *)
(* RecordAnswer follows the data model of the specification: one           *)
(* SessionAnswer row per answer, normalised by normalize_answer, and the   *)
(* step counter advanced by one.                                           *)
(***************************************************************************)
MaxRows == 4
\* a triage session waits for the end of a cool-down that ends within MaxWait
\* seconds
MaxWait == 30

Link(c, sy, w, rf) == [condition |-> c, symptom |-> sy, weight |-> w, is_red_flag |-> rf]
Question(t, sy, ty, w, act) ==
    [text |-> t, symptom |-> sy, answer_type |-> ty, weight |-> w, active |-> act,
     options |-> <<>>]
SymptomRow(n) == [name |-> n, body_area |-> "Chest"]
NoSnapshots == [c \in {} |-> 0]

COUGH == <<"c", "o", "u", "g", "h">>
RASH == <<"r", "a", "s", "h">>
WHEEZE == <<"w", "h", "e", "e", "z", "e">>
TextNight == <<"W", "o", "r", "s", "e", " ", "a", "t", " ", "n", "i", "g", "h", "t", "?">>
TextOften == <<"H", "o", "w", " ", "o", "f", "t", "e", "n", "?">>

\* Two conditions; the rash question is linked to both, the cough question to
\* one of them; a generated rash question was disabled by an administrator.
BankSplit ==
    [nconds |-> 2,
     symptoms |-> <<SymptomRow(COUGH), SymptomRow(RASH)>>,
     links |-> {Link(1, 1, 1, FALSE), Link(1, 2, 1, FALSE), Link(2, 2, 1, FALSE)},
     questions |-> <<Question(<<"A", "n", "y", " ", "r", "a", "s", "h", "?">>, 2, ANSWER_YES_NO, 1, TRUE),
                     Question(<<"A", "n", "y", " ", "c", "o", "u", "g", "h", "?">>, 1, ANSWER_YES_NO, 1, TRUE),
                     Question(TextNight, 2, ANSWER_TEXT, 1, FALSE)>>,
     areas |-> {"Chest"}, snapshots |-> NoSnapshots]

\* Three conditions with red-flag links.
BankRedFlag ==
    [nconds |-> 3,
     symptoms |-> <<SymptomRow(COUGH), SymptomRow(RASH), SymptomRow(WHEEZE)>>,
     links |-> {Link(1, 1, 2, FALSE), Link(2, 1, 1, FALSE), Link(2, 2, 1, TRUE),
                Link(3, 3, 1, TRUE)},
     questions |-> <<Question(<<"A", "n", "y", " ", "c", "o", "u", "g", "h", "?">>, 1, ANSWER_YES_NO, 1, TRUE),
                     Question(<<"A", "n", "y", " ", "r", "a", "s", "h", "?">>, 2, ANSWER_YES_NO, 2, TRUE),
                     Question(<<"D", "e", "s", "c", "r", "i", "b", "e", " ", "t", "h", "e", " ", "w", "h", "e", "e", "z", "e">>, 3, ANSWER_TEXT, 1, TRUE),
                     Question(<<"A", "n", "y", " ", "w", "h", "e", "e", "z", "e", "?">>, 3, ANSWER_YES_NO, 1, TRUE)>>,
     areas |-> {"Chest"}, snapshots |-> NoSnapshots]

\* A freshly migrated database: no rows at all.
BankEmpty ==
    [nconds |-> 0, symptoms |-> <<>>, links |-> {}, questions |-> <<>>,
     areas |-> {}, snapshots |-> NoSnapshots]

\* Six conditions and nine questions, most of them free text.
BankLong ==
    [nconds |-> 6,
     symptoms |-> <<SymptomRow(COUGH), SymptomRow(RASH), SymptomRow(WHEEZE)>>,
     links |-> {Link(1, 1, 1, FALSE), Link(2, 1, 1, FALSE), Link(3, 1, 2, FALSE),
                Link(3, 2, 1, FALSE), Link(4, 2, 1, FALSE), Link(5, 2, 1, FALSE),
                Link(6, 2, 1, FALSE), Link(6, 3, 1, FALSE)},
     questions |-> <<Question(<<"A", "n", "y", " ", "c", "o", "u", "g", "h", "?">>, 1, ANSWER_YES_NO, 1, TRUE),
                     Question(<<"A", "n", "y", " ", "r", "a", "s", "h", "?">>, 2, ANSWER_YES_NO, 1, TRUE),
                     Question(<<"D", "e", "s", "c", "r", "i", "b", "e", " ", "t", "h", "e", " ", "w", "h", "e", "e", "z", "e">>, 3, ANSWER_TEXT, 1, TRUE),
                     Question(<<"D", "e", "s", "c", "r", "i", "b", "e", " ", "t", "h", "e", " ", "c", "o", "u", "g", "h">>, 1, ANSWER_TEXT, 1, TRUE),
                     Question(<<"D", "e", "s", "c", "r", "i", "b", "e", " ", "t", "h", "e", " ", "r", "a", "s", "h">>, 2, ANSWER_TEXT, 2, TRUE),
                     Question(<<"C", "o", "u", "g", "h", " ", "h", "o", "w", " ", "o", "f", "t", "e", "n", "?">>, 1, ANSWER_SINGLE_CHOICE, 2, TRUE),
                     Question(<<"R", "a", "s", "h", " ", "h", "o", "w", " ", "o", "f", "t", "e", "n", "?">>, 2, ANSWER_SINGLE_CHOICE, 1, TRUE),
                     Question(<<"W", "h", "e", "e", "z", "e", " ", "h", "o", "w", " ", "o", "f", "t", "e", "n", "?">>, 3, ANSWER_SINGLE_CHOICE, 2, TRUE),
                     Question(<<"S", "i", "n", "c", "e", " ", "w", "h", "e", "n", "?">>, 1, ANSWER_TEXT, 1, TRUE)>>,
     areas |-> {"Chest"}, snapshots |-> NoSnapshots]

\* Three conditions; the cough question is linked to one of them and the rash
\* question to the other two.
BankThree ==
    [nconds |-> 3,
     symptoms |-> <<SymptomRow(COUGH), SymptomRow(RASH)>>,
     links |-> {Link(1, 1, 1, FALSE), Link(2, 2, 1, FALSE), Link(3, 2, 1, FALSE)},
     questions |-> <<Question(<<"A", "n", "y", " ", "c", "o", "u", "g", "h", "?">>, 1, ANSWER_YES_NO, 1, TRUE),
                     Question(<<"A", "n", "y", " ", "r", "a", "s", "h", "?">>, 2, ANSWER_YES_NO, 1, TRUE)>>,
     areas |-> {"Chest"}, snapshots |-> NoSnapshots]

Banks == <<BankSplit, BankRedFlag, BankEmpty, BankLong, BankThree>>

Complaints == { <<>>, COUGH, <<" ", "R", "a", "s", "h", " ">>, <<"i", "t", "c", "h">> }

\* What the AI endpoint may do when generate_adaptive_question calls it.
AdaptiveDict(text, type, opts) ==
    [kind |-> "parsed", isDict |-> TRUE,
     value |-> [text |-> text, answer_type |-> type, options |-> opts, ai_generated |-> TRUE]]
AdaptiveReplies ==
    << [kind |-> "no_client"],
       [kind |-> "transport_error"],
       [kind |-> "unparsable"],
       [kind |-> "parsed", isDict |-> FALSE, value |-> <<>>],
       [kind |-> "parsed", isDict |-> TRUE,
        value |-> [text |-> TextNight, answer_type |-> ADAPTIVE_YES_NO, options |-> <<>>]],
       AdaptiveDict(<<" ">>, ADAPTIVE_YES_NO, <<>>),
       AdaptiveDict(TextNight, <<"s", "c", "a", "l", "e">>, <<>>),
       AdaptiveDict(TextOften, ADAPTIVE_SINGLE_CHOICE, << <<"d", "a", "i", "l", "y">>, <<" ">> >>),
       AdaptiveDict(TextOften, ADAPTIVE_SINGLE_CHOICE,
                    << <<"1">>, <<"2">>, <<"3">>, <<"4">>, <<"5">>, <<"6">> >>),
       AdaptiveDict(<<" ">> \o TextNight \o <<"\n">>, <<" ", "Y", "e", "s", "_", "N", "o">>, << <<"d", "a", "i", "l", "y">> >>),
       AdaptiveDict(TextOften, ADAPTIVE_SINGLE_CHOICE, << <<"d", "a", "i", "l", "y">>, <<" ">>, <<" ", "r", "a", "r", "e", "l", "y">> >>) >>
\* the replies the triage session is driven with: a transport failure, a
\* question without the marker, and the two accepted questions
TriageAdaptiveReplies == {2, 5, 10, 11}

\* What the user may type: anything for a yes/no question, one of the offered
\* choices or a short description for the other types.
TriageAnswers(answer_type) ==
    IF answer_type = ANSWER_YES_NO
    THEN { PyStr(<<" ", "Y", "e", "s">>), PyStr(<<"n", "o">>), PyStr(<<"m", "a", "y", "b", "e">>) }
    ELSE { PyStr(<<"d", "a", "i", "l", "y">>) }

NewSession(complaint) ==
    [initial_symptom |-> complaint, status |-> STATUS_ACTIVE, current_step |-> 0,
     top_confidence |-> [num |-> 0, den |-> 1], emergency_message |-> ""]

NotAsked == [op |-> "none", question |-> NoQuestion, raised |-> FALSE, ai |-> "none"]

InitTriage ==
    /\ call = NoCall
    /\ store = IdleFlow
    /\ lastOp = [op |-> "none"]
    /\ diagCalls = 0
    /\ \E b \in 1..Len(Banks) : db = Banks[b]
    /\ \E complaint \in Complaints : session = NewSession(complaint)
    /\ answers = <<>>
    /\ returned = NotAsked
    /\ gemini = IdleGemini

\* The caller asks for the next question once the previous one is answered.
SelectNext ==
    \E r \in TriageAdaptiveReplies :
        LET out == select_next_question(db, session, answers, gemini, AdaptiveReplies[r])
        IN  /\ returned.question = NoQuestion
            /\ \/ ~generate_adaptive_question(IdleGemini, AdaptiveReplies[r]).used
               \/ Len(db.questions) < MaxRows
            /\ db' = out.db
            /\ session' = out.session
            /\ gemini' = out.gemini
            /\ returned' = [op |-> "select", question |-> out.question,
                            raised |-> out.raised, ai |-> out.ai]
            /\ UNCHANGED <<answers, fnVars, flowVars>>

\* Time passes until the cool-down of the question generator is over.
CooldownElapses ==
    /\ gemini.now < gemini._DISABLE_UNTIL
    /\ gemini._DISABLE_UNTIL <= MaxWait
    /\ gemini' = [gemini EXCEPT !.now = gemini._DISABLE_UNTIL]
    /\ UNCHANGED <<fnVars, flowVars, triageVars>>

\* The caller stores the user's answer to the question it was handed and runs
\* the scoring pass the new answer triggers.
RecordAnswer ==
    /\ returned.op = "select"
    /\ returned.question # NoQuestion
    /\ LET q == returned.question[1]
       IN  \E value \in TriageAnswers(db.questions[q].answer_type) :
            LET rows == Append(answers,
                            [question_id |-> q, answer_value |-> value,
                             normalized_bool |->
                                 normalize_answer(value, db.questions[q].answer_type)])
                stepped == [session EXCEPT !.current_step = @ + 1]
                out == compute_condition_scores(db, stepped, rows)
            IN  /\ answers' = rows
                /\ session' = out.session
                /\ db' = [db EXCEPT !.snapshots = out.snapshots]
    /\ returned' = [op |-> "answer", question |-> NoQuestion, raised |-> FALSE, ai |-> "none"]
    /\ UNCHANGED <<fnVars, flowVars, geminiVars>>

NextTriage == SelectNext \/ RecordAnswer \/ CooldownElapses
SpecTriage == InitTriage /\ [][NextTriage]_vars

(***************************************************************************)
(* Claims about the rule-based engine, checked under SpecTriage.           *)
(***************************************************************************)

\* C1: select_next_question, its fallback included, never returns a question
\* the session has already answered.
C1_NeverReturnsAnswered ==
    (returned.op = "select" /\ returned.question # NoQuestion)
        => returned.question[1] \notin AnsweredQuestionIds(answers)

\* An answer normalised to true for a question whose symptom carries a
\* red-flag link.
RedFlagAnswered ==
    \E i \in 1..Len(answers) :
        /\ answers[i].normalized_bool = "true"
        /\ \E l \in db.links : /\ l.symptom = db.questions[answers[i].question_id].symptom
                               /\ l.is_red_flag

\* C2: after the scoring pass that follows a "true" answer on a red-flag
\* symptom the session is in status emergency, and no later scoring pass takes
\* a session out of emergency.
C2_RedFlagMeansEmergency ==
    /\ [](RedFlagAnswered => session.status = STATUS_EMERGENCY)
    /\ [][session.status = STATUS_EMERGENCY => session'.status = STATUS_EMERGENCY]_vars

\* The confidences of the last scoring pass, as stored in the snapshots, add
\* up to 1: they are fractions over one denominator, the numerators adding up
\* to it.
Confidences_sum_to_one ==
    LET ids == DOMAIN db.snapshots
        nums == [c \in ids |-> db.snapshots[c].confidence.num]
    IN  \E total \in {db.snapshots[c].confidence.den : c \in ids} :
            /\ total > 0
            /\ \A c \in ids : db.snapshots[c].confidence.den = total
            /\ SumOf(nums, ids) = total

\* C4 as stated: for a non-empty candidate set of any size the confidences sum
\* to 1 and each one lies strictly between 0 and 1.
C4_ConfidencesStrictlyInside ==
    DOMAIN db.snapshots # {} =>
        /\ Confidences_sum_to_one
        /\ \A c \in DOMAIN db.snapshots :
              /\ 0 < db.snapshots[c].confidence.num
              /\ db.snapshots[c].confidence.num < db.snapshots[c].confidence.den

\* C4, amended: for a non-empty candidate set the confidences sum to 1 and each
\* one is above 0 and at most 1; it is below 1 when there are at least two
\* candidates, and exactly 1 for a single candidate.
C4_ConfidencesDistribution ==
    DOMAIN db.snapshots # {} =>
        /\ Confidences_sum_to_one
        /\ \A c \in DOMAIN db.snapshots :
              /\ 0 < db.snapshots[c].confidence.num
              /\ db.snapshots[c].confidence.num <= db.snapshots[c].confidence.den
              /\ Cardinality(DOMAIN db.snapshots) >= 2
                    => db.snapshots[c].confidence.num < db.snapshots[c].confidence.den
              /\ Cardinality(DOMAIN db.snapshots) = 1
                    => db.snapshots[c].confidence.num = db.snapshots[c].confidence.den

\* A scored session with a single candidate condition, and an answer counted.
C4_Witness ==
    /\ Cardinality(DOMAIN db.snapshots) = 1
    /\ answers # <<>>
    /\ \E c \in DOMAIN db.snapshots : db.snapshots[c].score # 0

(***************************************************************************)
(* ai_client.py: the retry loop around the external endpoint and the       *)
(* classification of its errors.  An error text is a sequence of           *)
(* characters; endpoint[k] is what the k-th call of _call_gemini does:     *)
(* [ok |-> TRUE, content |-> c] or [ok |-> FALSE, error |-> text].         *)
(***************************************************************************)
\* re.search(r"retry[^0-9]*(\d+)", message): the digits matched, or <<>>.
RetryMatch(message) ==
    LET word == <<"r", "e", "t", "r", "y">>
        starts == {i \in 1..(Len(message) - Len(word) + 1) :
                      SubSeq(message, i, i + Len(word) - 1) = word}
        first == CHOOSE i \in starts : \A o \in starts : i <= o
        digits == {j \in (first + Len(word))..Len(message) : IsDigit(message[j])}
        from == CHOOSE j \in digits : \A o \in digits : j <= o
        to == CHOOSE k \in from..Len(message) :
                  /\ \A j \in from..k : IsDigit(message[j])
                  /\ k = Len(message) \/ ~IsDigit(message[k + 1])
    IN  IF starts = {} THEN <<>>
        ELSE IF digits = {} THEN <<>>
        ELSE SubSeq(message, from, to)

Friendly(text) == [message |-> text, retry_seconds |-> <<>>]

\* _friendly_error(exc): the user-facing message, and for a quota error the
\* number of seconds of its " Retry in about N seconds." hint (<<>> without).
_friendly_error(exc) ==
    LET message == exc
        lowered == Lower(message)
        Has(t) == Contains(lowered, t)
    IN  IF Has(<<"n", "o", "t", " ", "f", "o", "u", "n", "d", " ", "f", "o", "r", " ", "a", "p", "i", " ", "v", "e", "r", "s", "i", "o", "n">>) \/ Has(<<"i", "s", " ", "n", "o", "t", " ", "f", "o", "u", "n", "d">>) \/ Has(<<"4", "0", "4">>)
        THEN Friendly("Gemini model name is invalid/unsupported for this endpoint. Use GEMINI_MODEL=gemini-2.5-flash.")
        ELSE IF Has(<<"r", "e", "p", "o", "r", "t", "e", "d", " ", "a", "s", " ", "l", "e", "a", "k", "e", "d">>)
        THEN Friendly("Gemini rejected this key because it was reported as leaked. Generate a new Gemini API key and replace GEMINI_API_KEY.")
        ELSE IF Has(<<"q", "u", "o", "t", "a">>) \/ Has(<<"4", "2", "9">>) \/ Has(<<"r", "a", "t", "e", " ", "l", "i", "m", "i", "t">>)
        THEN [message |-> "Gemini rate/quota limit reached (429). Retry shortly.",
              retry_seconds |-> RetryMatch(message)]
        ELSE IF Has(<<"i", "n", "v", "a", "l", "i", "d", " ", "a", "p", "i", " ", "k", "e", "y">>) \/ Has(<<"i", "n", "c", "o", "r", "r", "e", "c", "t", " ", "a", "p", "i", " ", "k", "e", "y">>) \/ Has(<<"4", "0", "1">>)
        THEN Friendly("Gemini API key is invalid or unauthorized (401). Update GEMINI_API_KEY and restart server.")
        ELSE IF Has(<<"p", "e", "r", "m", "i", "s", "s", "i", "o", "n">>) \/ Has(<<"f", "o", "r", "b", "i", "d", "d", "e", "n">>) \/ Has(<<"4", "0", "3">>)
        THEN Friendly("Gemini request forbidden (403). Check key permissions, API enablement, and model access.")
        ELSE Friendly("Gemini request failed. Check GEMINI_API_KEY, model name, and quota.")

KEY_MISSING ==
    Friendly("Gemini API key missing. Set GEMINI_API_KEY in .env and restart server.")

\* A loop that sleeps after every failed attempt.
RetrySleep_always(attempt, retries) == <<6 * (attempt + 1)>>

\* time.sleep(0.6 * (attempt + 1)) if attempt < retries: the sleeps made after
\* the failed attempt (0-based), in tenths of a second.
RetrySleep(attempt, retries) ==
    IF attempt < retries THEN <<6 * (attempt + 1)>> ELSE <<>>

RECURSIVE RetryLoop(_, _, _, _, _)
\* for attempt in range(retries + 1), from the given attempt on
RetryLoop(endpoint, retries, attempt, last_error, sleeps) ==
    IF attempt > retries
    THEN [ok |-> FALSE, content |-> "", error |-> _friendly_error(last_error),
          calls |-> attempt, sleeps |-> sleeps]
    ELSE IF endpoint[attempt + 1].ok
    THEN [ok |-> TRUE, content |-> endpoint[attempt + 1].content, error |-> Friendly(""),
          calls |-> attempt + 1, sleeps |-> sleeps]
    ELSE RetryLoop(endpoint, retries, attempt + 1, endpoint[attempt + 1].error,
                   sleeps \o RetrySleep(attempt, retries))

\* _generate_content_with_retry(prompt, retries=): [ok, content, error, calls,
\* sleeps]; calls counts the calls of _call_gemini.
_generate_content_with_retry(api_key, endpoint, retries) ==
    IF api_key = <<>>
    THEN [ok |-> FALSE, content |-> "", error |-> KEY_MISSING, calls |-> 0, sleeps |-> <<>>]
    ELSE RetryLoop(endpoint, retries, 0, <<>>, <<>>)

\* What one call of the endpoint may do.
EndpointOutcomes ==
    { [ok |-> TRUE, content |-> "[]"],
      [ok |-> TRUE, content |-> "{}"],
      [ok |-> FALSE, error |-> <<"H", "T", "T", "P", " ", "4", "2", "9", ":", " ", "Q", "u", "o", "t", "a", " ", "e", "x", "c", "e", "e", "d", "e", "d", ",", " ", "r", "e", "t", "r", "y", " ", "i", "n", " ", "1", "7", "s">>],
      [ok |-> FALSE, error |-> <<"H", "T", "T", "P", " ", "4", "0", "4", ":", " ", "m", "o", "d", "e", "l", " ", "i", "s", " ", "n", "o", "t", " ", "f", "o", "u", "n", "d">>],
      [ok |-> FALSE, error |-> <<"t", "i", "m", "e", "d", " ", "o", "u", "t">>] }
ApiKeys == { <<>>, <<"k">> }
\* retries tried: 0..MaxRetries
MaxRetries == 2

CallGenerateContent ==
    /\ call = NoCall
    /\ \E retries \in 0..MaxRetries, api_key \in ApiKeys :
        \E endpoint \in [1..(retries + 1) -> EndpointOutcomes] :
            call' = [fn |-> "_generate_content_with_retry",
                     args |-> [api_key |-> api_key, endpoint |-> endpoint, retries |-> retries],
                     result |-> _generate_content_with_retry(api_key, endpoint, retries)]
    /\ UNCHANGED <<flowVars, triageVars, geminiVars>>

\* Raw answers tried on normalize_answer: every token as it is, in upper
\* case, capitalised and padded, and strings that are no token.
AnswerTokens == TRUE_TOKENS \cup FALSE_TOKENS
AnswerTexts ==
    AnswerTokens
    \cup {Upper(t) : t \in AnswerTokens}
    \cup {Capitalize(t) : t \in AnswerTokens}
    \cup {<<" ">> \o t \o <<"\n">> : t \in AnswerTokens}
    \cup {<<"\t">> \o Upper(t) : t \in AnswerTokens}
    \cup { <<>>, <<" ">>, <<"m", "a", "y", "b", "e">>, <<"y", "e", "s", " ", "p", "l", "e", "a", "s", "e">>, <<"y">>, <<"1", "0">>, <<"n", "o", "p", "e">>, <<"N", "o", "n", "e">>, <<"y", "e", " ", "s">> }
NormalizeAnswerInputs == {PyStr(t) : t \in AnswerTexts} \cup {PyNone}
AnswerTypes == {ANSWER_YES_NO, ANSWER_SINGLE_CHOICE, ANSWER_TEXT, ""}

CallNormalizeAnswer ==
    /\ call = NoCall
    /\ \E value \in NormalizeAnswerInputs, type \in AnswerTypes :
        call' = [fn |-> "normalize_answer",
                 args |-> [answer_value |-> value, answer_type |-> type],
                 result |-> normalize_answer(value, type)]
    /\ UNCHANGED <<flowVars, triageVars, geminiVars>>

(***************************************************************************)
(* SpecFn: one call of a pure function on one input.                       *)
(***************************************************************************)
\* Field values the dataclasses are tried with, empty ones and ones that
\* differ from the defaults of from_dict included.
QuestionItems ==
    {[id |-> i, text |-> t, type |-> ty, options |-> o] :
        i \in {0, 1, REQUIRED_QUESTIONS},
        t \in {<<>>, <<"q", "a">>},
        ty \in {"", "yesno", "text", "single_choice"},
        o \in {<<>>, << <<"x">>, <<"y", " ">> >>}}
DiagnosisConditions ==
    {[name |-> n, likelihood |-> l, reasoning |-> "pattern", specialization |-> sp] :
        n \in {<<>>, <<"f", "l", "u">>}, l \in {"", "High"}, sp \in {"", "ENT"}}
DiagnosisResults ==
    {[conditions |-> cs, urgency |-> u, advice |-> a] :
        cs \in {<<>>} \cup {<<c>> : c \in DiagnosisConditions}
                \cup {<<c, c2>> : c \in DiagnosisConditions, c2 \in DiagnosisConditions},
        u \in {"", "Low", "Moderate"},
        a \in {<<>>, GoodAdvice, DEFAULT_ADVICE}}

\* x.to_dict() and from_dict of it, for a QuestionItem or a DiagnosisResult.
CallRoundTrip ==
    /\ call = NoCall
    /\ \/ \E x \in QuestionItems :
            call' = [fn |-> "QuestionItem", item |-> x,
                     wire |-> QuestionItem_to_dict(x),
                     back |-> QuestionItem_from_dict(QuestionItem_to_dict(x))]
       \/ \E x \in DiagnosisResults :
            call' = [fn |-> "DiagnosisResult", item |-> x,
                     wire |-> DiagnosisResult_to_dict(x),
                     back |-> DiagnosisResult_from_dict(DiagnosisResult_to_dict(x))]
    /\ UNCHANGED <<flowVars, triageVars, geminiVars>>

CallGenerateQuestions ==
    /\ call = NoCall
    /\ \E r \in 1..Len(QuestionReplies) :
        call' = [fn |-> "generate_questions", reply |-> r, result |-> QuestionOutcomes[r]]
    /\ UNCHANGED <<flowVars, triageVars, geminiVars>>

CallGenerateDiagnosis ==
    /\ call = NoCall
    /\ \E k \in 1..Len(DiagnosisReplies) :
        call' = [fn |-> "generate_diagnosis", reply |-> k, result |-> DiagnosisOutcomes[k]]
    /\ UNCHANGED <<flowVars, triageVars, geminiVars>>

NextFn ==
    \/ CallShouldStop
    \/ CallEmergencyPrecheck
    \/ CallGenerateQuestions
    \/ CallGenerateDiagnosis
    \/ CallGenerateContent
    \/ CallNormalizeAnswer
    \/ CallRoundTrip

SpecFn == InitFn /\ [][NextFn]_vars

\* The keys a diagnosis object and each of its conditions must carry.
DIAGNOSIS_KEYS == {"conditions", "urgency", "advice", "ai_generated"}
CONDITION_KEYS == {"name", "likelihood", "reasoning", "specialization"}

\* A diagnosis reply that is malformed, incomplete or lacks the marker.
MalformedDiagnosisReply(reply) ==
    \/ reply.kind # "parsed"
    \/ ~reply.isDict
    \/ LET d == reply.value
       IN  \/ ~(DIAGNOSIS_KEYS \subseteq DOMAIN d)
           \/ /\ DIAGNOSIS_KEYS \subseteq DOMAIN d
              /\ \/ d.ai_generated # TRUE
                 \/ d.conditions = <<>>
                 \/ \E i \in 1..Len(d.conditions) :
                       \/ ~(CONDITION_KEYS \subseteq DOMAIN d.conditions[i])
                       \/ /\ "name" \in DOMAIN d.conditions[i]
                          /\ Strip(d.conditions[i].name) = <<>>
                 \/ d.urgency \notin URGENCIES
                 \/ Strip(d.advice) = <<>>

\* C11: on a malformed, incomplete or unmarked response generate_questions and
\* generate_diagnosis raise and return nothing; a result is never built from
\* the valid part of a response only, so a returned diagnosis carries every
\* condition of the response and a returned question list every item.
C11_NoPartialResult ==
    /\ call.fn = "generate_diagnosis" =>
          LET reply == DiagnosisReplies[call.reply]
          IN  /\ MalformedDiagnosisReply(reply) => ~call.result.ok
              /\ call.result.ok =>
                    Len(call.result.value.conditions) = Len(reply.value.conditions)
    /\ call.fn = "generate_questions" =>
          LET reply == QuestionReplies[call.reply]
          IN  call.result.ok =>
                /\ reply.kind = "parsed" /\ reply.isList
                /\ Len(call.result.value) = Len(reply.value)
                /\ \A i \in 1..Len(reply.value) : Get(reply.value[i], "ai_generated", FALSE) = TRUE

\* C12: generate_questions raises whenever the parsed array has a length other
\* than the required count, and a list it returns has exactly that length.
C12_WrongLengthRaises ==
    call.fn = "generate_questions" =>
        LET reply == QuestionReplies[call.reply]
        IN  /\ (reply.kind = "parsed" /\ reply.isList /\ Len(reply.value) # REQUIRED_QUESTIONS)
                  => /\ ~call.result.ok
                     /\ call.result.error = "AI must return exactly 15 questions."
            /\ call.result.ok => Len(call.result.value) = REQUIRED_QUESTIONS

\* C12 witness: a list of 5 valid items is refused.
C12_Witness ==
    /\ call.fn = "generate_questions"
    /\ QuestionReplies[call.reply].kind = "parsed"
    /\ QuestionReplies[call.reply].isList
    /\ Len(QuestionReplies[call.reply].value) = 5
    /\ \A i \in 1..5 : _validate_question(QuestionReplies[call.reply].value[i], i).ok
    /\ ~call.result.ok

(***************************************************************************)
(* SpecGemini: generate_adaptive_question called again and again while the *)
(* clock advances.  call remembers when the last failed attempt was made   *)
(* (failed_at, < 0 when there was none).                                   *)
(***************************************************************************)
\* the clock advances in steps of TickSeconds up to MaxClock seconds
TickSeconds == 10
MaxClock == 60

InitGemini ==
    /\ call = NoCall
    /\ gemini = IdleGemini
    /\ store = IdleFlow /\ lastOp = [op |-> "none"] /\ diagCalls = 0
    /\ db = <<>> /\ session = <<>> /\ answers = <<>> /\ returned = <<>>

CallAdaptive ==
    \E r \in 1..Len(AdaptiveReplies) :
        LET out == generate_adaptive_question(gemini, AdaptiveReplies[r])
            before == IF call.fn = "generate_adaptive_question" THEN call.failed_at ELSE 0 - 1
            failed == out.invoked /\ ~out.used
        IN  /\ gemini' = out.gemini
            /\ call' = [fn |-> "generate_adaptive_question", reply |-> r, at |-> gemini.now,
                        invoked |-> out.invoked, used |-> out.used, result |-> out.generated,
                        previous_failure |-> before,
                        failed_at |-> IF failed THEN gemini.now ELSE before]
            /\ UNCHANGED <<flowVars, triageVars>>

Tick ==
    /\ gemini.now < MaxClock
    /\ gemini' = [gemini EXCEPT !.now = @ + TickSeconds]
    /\ UNCHANGED <<fnVars, flowVars, triageVars>>

NextGemini == CallAdaptive \/ Tick
SpecGemini == InitGemini /\ [][NextGemini]_vars

\* C13: a failed attempt of generate_adaptive_question returns the empty
\* question, and the endpoint is not called again before COOLDOWN_SECONDS have
\* passed since the last failed attempt.
C13_CooldownAfterFailure ==
    call.fn = "generate_adaptive_question" =>
        /\ (call.invoked /\ ~call.used) => call.result = EmptyGenerated
        /\ call.invoked =>
              \/ call.previous_failure < 0
              \/ call.at >= call.previous_failure + COOLDOWN_SECONDS

\* The attempts made by a call: up to the first success, retries + 1 at most.
FailuresBefore(endpoint, n) == \A k \in 1..n : ~endpoint[k].ok

\* C14: _generate_content_with_retry calls the endpoint at most retries + 1
\* times (3 for retries = 2), returns the content of the first successful call
\* and calls no more, sleeps 0.6 * k seconds after the k-th failed attempt but
\* not after the last one, and when every attempt fails raises the classified
\* message of the last error.
C14_RetryLoop ==
    (call.fn = "_generate_content_with_retry" /\ call.args.api_key # <<>>) =>
        LET a == call.args
            r == call.result
            n == a.retries + 1
        IN  /\ r.calls <= n
            /\ a.retries = 2 => r.calls <= 3
            /\ \A k \in 1..n :
                  (a.endpoint[k].ok /\ FailuresBefore(a.endpoint, k - 1)) =>
                      /\ r.ok /\ r.content = a.endpoint[k].content /\ r.calls = k
                      /\ r.sleeps = [j \in 1..(k - 1) |-> 6 * j]
            /\ FailuresBefore(a.endpoint, n) =>
                  /\ ~r.ok /\ r.calls = n
                  /\ r.sleeps = [j \in 1..(n - 1) |-> 6 * j]
                  /\ r.error = _friendly_error(a.endpoint[n].error)

\* C14 witness: with retries = 2 a quota error and a timeout are followed by a
\* successful third call, after sleeps of 0.6 and 1.2 seconds.
C14_Witness ==
    /\ call.fn = "_generate_content_with_retry"
    /\ call.args.retries = 2 /\ call.args.api_key # <<>>
    /\ ~call.args.endpoint[1].ok /\ ~call.args.endpoint[2].ok /\ call.args.endpoint[3].ok
    /\ call.result.ok /\ call.result.calls = 3
    /\ call.result.sleeps = <<6, 12>>

\* C15: when no stored question is available and the adaptive generation
\* fails or returns nothing usable, select_next_question returns none, does not
\* raise and creates no DiagnosticQuestion row.
C15_FailedGenerationReturnsNone ==
    [][(returned'.op = "select" /\ returned'.ai = "empty")
          => /\ returned'.question = NoQuestion
             /\ ~returned'.raised
             /\ db'.questions = db.questions]_vars

\* C15 witness: every stored question is answered, the generator was asked and
\* gave nothing, and the selector returned none.
C15_Witness ==
    /\ returned.op = "select" /\ returned.ai = "empty"
    /\ returned.question = NoQuestion
    /\ answers # <<>>
    /\ QuestionCandidates(db, AnsweredQuestionIds(answers)) = {}

\* The two texts are equal, letter case ignored.
SameIgnoringCase(a, b) ==
    /\ Len(a) = Len(b)
    /\ \A k \in 1..Len(a) : UpperChar(a[k]) = UpperChar(b[k])

IsToken(text, tokens) == \E t \in tokens : SameIgnoringCase(text, t)

\* The text is a token with white space before and after it, if any.
IsPaddedToken(text, tokens) ==
    \E a \in 1..Len(text), b \in 1..Len(text) :
        /\ a <= b
        /\ IsToken(SubSeq(text, a, b), tokens)
        /\ \A k \in (1..(a - 1)) \cup ((b + 1)..Len(text)) : text[k] \in Whitespace

\* C16 as stated: for a yes_no question normalize_answer returns true exactly
\* when the raw answer equals "yes", "true" or "1", letter case ignored, false
\* exactly when it equals "no", "false" or "0", and unknown for any other
\* string; for every other answer type it returns unknown.
C16_TokensOnly ==
    call.fn = "normalize_answer" =>
        LET x == call.args.answer_value
        IN  IF call.args.answer_type # ANSWER_YES_NO THEN call.result = "none"
            ELSE /\ call.result = "true" <=> (~x.none /\ IsToken(x.text, TRUE_TOKENS))
                 /\ call.result = "false" <=> (~x.none /\ IsToken(x.text, FALSE_TOKENS))
                 /\ call.result \in {"true", "false", "none"}

\* C16, amended: for a yes_no question normalize_answer returns true exactly
\* when the raw answer, with the white space around it removed and letter case
\* ignored, is "yes", "true" or "1", false exactly when it is "no", "false" or
\* "0", and unknown for any other string, the empty string and a missing
\* answer included; for every other answer type it returns unknown.
C16_TrimmedTokens ==
    call.fn = "normalize_answer" =>
        LET x == call.args.answer_value
        IN  IF call.args.answer_type # ANSWER_YES_NO THEN call.result = "none"
            ELSE /\ call.result = "true" <=> (~x.none /\ IsPaddedToken(x.text, TRUE_TOKENS))
                 /\ call.result = "false" <=> (~x.none /\ IsPaddedToken(x.text, FALSE_TOKENS))
                 /\ call.result \in {"true", "false", "none"}

\* C16 witness: a padded "no" on a yes_no question is read as false.
C16_Witness ==
    /\ call.fn = "normalize_answer"
    /\ call.args.answer_type = ANSWER_YES_NO
    /\ call.args.answer_value = PyStr(<<" ", "n", "o", "\n">>)
    /\ call.result = "false"

\* str(True), str(False), str(None)
CanonicalString(result) ==
    IF result = "true" THEN <<"T", "r", "u", "e">>
    ELSE IF result = "false" THEN <<"F", "a", "l", "s", "e">>
    ELSE <<"N", "o", "n", "e">>

\* C17: normalize_answer returns one of the three values for every answer and
\* answer type, and for a yes_no question normalising the canonical string of a
\* normalised result gives that result again.
C17_TotalAndIdempotent ==
    call.fn = "normalize_answer" =>
        /\ call.result \in {"true", "false", "none"}
        /\ call.args.answer_type = ANSWER_YES_NO =>
              normalize_answer(PyStr(CanonicalString(call.result)), ANSWER_YES_NO)
                  = call.result

\* C17 witness: "YES" on a yes_no question is normalised to true.
C17_Witness ==
    /\ call.fn = "normalize_answer"
    /\ call.args.answer_type = ANSWER_YES_NO
    /\ call.args.answer_value = PyStr(<<"Y", "E", "S">>)
    /\ call.result = "true"

\* C18: with no recorded answer and n >= 1 candidate conditions the scorer
\* gives every candidate the confidence 1/n.
C18_UniformWithoutAnswers ==
    (answers = <<>> /\ DOMAIN db.snapshots # {}) =>
        LET n == Cardinality(DOMAIN db.snapshots)
        IN  /\ DOMAIN db.snapshots = _candidate_condition_ids(db, session)
            /\ \A c \in DOMAIN db.snapshots :
                  db.snapshots[c].confidence.num * n = db.snapshots[c].confidence.den

\* C18 witness: a first scoring pass over three candidates.
C18_Witness ==
    /\ answers = <<>>
    /\ returned.op = "select"
    /\ Cardinality(DOMAIN db.snapshots) = 3
    /\ session.top_confidence.num * 3 = session.top_confidence.den

\* C19: at or above the step cap select_next_question returns none, whatever
\* questions remain unanswered.
C19_NoneAtStepCap ==
    (returned.op = "select" /\ session.current_step >= MAX_QUESTIONS)
        => returned.question = NoQuestion

\* C19 witness: the selector returned none at the cap although an active
\* question linked to a condition is still unanswered.
C19_Witness ==
    /\ returned.op = "select"
    /\ session.current_step >= MAX_QUESTIONS
    /\ returned.question = NoQuestion
    /\ \E q \in QuestionCandidates(db, AnsweredQuestionIds(answers)) :
          LinkedConditionIds(db, q) # {}

\* Text that is empty or made of white space only.
BlankText(t) == \A i \in 1..Len(t) : t[i] \in Whitespace

\* An age that was filled in and is not a number: some character is neither a
\* digit, a sign nor white space.
NonNumericAge(t) ==
    \E i \in 1..Len(t) : ~IsDigit(t[i]) /\ t[i] \notin (Whitespace \cup {"+", "-"})

\* C20: malformed client input never changes the session state: an intake with
\* an empty symptom or a non-numeric age is rejected, starts no session and
\* generates no question; an empty or white-space-only answer records no
\* answer and does not advance the current question.
C20_MalformedInputChangesNothing ==
    [][/\ (lastOp'.op = "intake"
             /\ (BlankText(OrEmpty(lastOp'.symptom_raw)) \/ NonNumericAge(lastOp'.age_raw)))
          => /\ store' = store
             /\ ~lastOp'.generated
             /\ lastOp'.outcome \in {"symptom_missing", "age_not_number"}
       /\ (lastOp'.op = "answer" /\ BlankText(OrEmpty(lastOp'.answer_raw)))
          => /\ store' = store
             /\ (store.present =>
                    /\ store'.flow.answers = store.flow.answers
                    /\ store'.flow.current_index = store.flow.current_index)]_vars

\* C20 witness: a white-space-only answer posted to a flow that is under way and
\* has an answer recorded, the question being shown again.
C20_Witness ==
    /\ lastOp.op = "answer" /\ lastOp.outcome = "question"
    /\ lastOp.answer_raw = PyStr(<<" ">>)
    /\ ~lastOp.submitted
    /\ store.present /\ Len(store.flow.answers) > 0
    /\ store.flow.current_index < Len(store.flow.questions)

(***************************************************************************)
(* Claims about the choice of the next question, checked under SpecTriage. *)
(* After a selection the answers are those the selector saw, and the        *)
(* ranking it computed is the ranking of the stored bank and answers.       *)
(***************************************************************************)
\* The active conditions of the scoring pass over the recorded answers.
ActiveNow ==
    _active_condition_set(db, compute_condition_scores(db, session, answers).ranked)

\* Active, unanswered questions whose symptom is linked to some condition.
EligibleNow ==
    {q \in QuestionCandidates(db, AnsweredQuestionIds(answers)) :
        LinkedConditionIds(db, q) # {}}

C23_NoOverlapNeverChosen ==
    (/\ returned.op = "select"
     /\ returned.question # NoQuestion
     /\ returned.question = BestQuestion(db, AnsweredQuestionIds(answers), ActiveNow))
    => LinkedConditionIds(db, returned.question[1]) \cap ActiveNow # {}

\* C24 as stated: whenever some question is eligible the selector returns an
\* eligible question of maximal score, the first of those in iteration order.
C24_BestEligibleAlways ==
    (returned.op = "select" /\ EligibleNow # {})
    => /\ returned.question # NoQuestion
       /\ returned.question[1] \in EligibleNow
       /\ \A o \in EligibleNow :
             /\ QuestionScore(db, o, ActiveNow)
                   <= QuestionScore(db, returned.question[1], ActiveNow)
             /\ QuestionScore(db, o, ActiveNow)
                   = QuestionScore(db, returned.question[1], ActiveNow)
                => returned.question[1] <= o

\* C24, amended: below the step cap, whenever some question is eligible the
\* selector returns an eligible question of maximal score, the first of those
\* in iteration order; at the cap it returns none.
C24_BestEligibleBelowCap ==
    (returned.op = "select" /\ EligibleNow # {})
    => IF session.current_step >= MAX_QUESTIONS
       THEN returned.question = NoQuestion
       ELSE /\ returned.question # NoQuestion
            /\ returned.question[1] \in EligibleNow
            /\ \A o \in EligibleNow :
                  /\ QuestionScore(db, o, ActiveNow)
                        <= QuestionScore(db, returned.question[1], ActiveNow)
                  /\ QuestionScore(db, o, ActiveNow)
                        = QuestionScore(db, returned.question[1], ActiveNow)
                     => returned.question[1] <= o

\* C24 witness: three eligible questions tied at the maximum, the first of
\* them returned, after an answer was recorded.
C24_Witness ==
    /\ returned.op = "select"
    /\ answers # <<>>
    /\ session.current_step < MAX_QUESTIONS
    /\ returned.question # NoQuestion
    /\ Cardinality({o \in EligibleNow :
           QuestionScore(db, o, ActiveNow)
              = QuestionScore(db, returned.question[1], ActiveNow)}) >= 3
    /\ \A o \in EligibleNow : returned.question[1] <= o
          \/ QuestionScore(db, o, ActiveNow)
                < QuestionScore(db, returned.question[1], ActiveNow)

(***************************************************************************)
(* Claims about the scoring pass, checked under SpecTriage.  Once a         *)
(* question was asked for, the snapshots are those of the last pass.        *)
(***************************************************************************)
\* What the i-th recorded answer contributes to condition c, in tenths.
Contribution(c, i) ==
    LET question == db.questions[answers[i].question_id]
        linked == {l \in db.links : l.condition = c /\ l.symptom = question.symptom}
        factor == IF answers[i].normalized_bool = "true" THEN 10
                  ELSE IF answers[i].normalized_bool = "false" THEN 0 - 7
                  ELSE 0
    IN  SumOf([l \in linked |-> factor * l.weight * question.weight], linked)

RECURSIVE SumFromLast(_, _)
\* The contributions to c of the answers k..last, added up from the last one.
SumFromLast(c, k) ==
    IF k > Len(answers) THEN 0 ELSE SumFromLast(c, k + 1) + Contribution(c, k)

Reversed(rows) == [i \in 1..Len(rows) |-> rows[Len(rows) + 1 - i]]

AtMost(a, b) == a.num * b.den <= b.num * a.den

\* C26: after every scoring pass the ranking is in non-increasing order of raw
\* score and top_confidence is the maximum confidence of the ranked
\* candidates, 0 when there is none.
C26_RankedAndTopConfidence ==
    (returned.op # "none") =>
        LET ranked == compute_condition_scores(db, session, answers).ranked
        IN  /\ \A k \in 1..(Len(ranked) - 1) : ranked[k].score >= ranked[k + 1].score
            /\ {ranked[k].condition : k \in 1..Len(ranked)} = DOMAIN db.snapshots
            /\ \A k \in 1..Len(ranked) :
                  /\ db.snapshots[ranked[k].condition].score = ranked[k].score
                  /\ db.snapshots[ranked[k].condition].confidence = ranked[k].confidence
                  /\ AtMost(ranked[k].confidence, session.top_confidence)
            /\ IF ranked = <<>> THEN session.top_confidence.num = 0
               ELSE \E k \in 1..Len(ranked) : ranked[k].confidence = session.top_confidence

\* C26 witness: the leading condition is not the first of the table, and the
\* top confidence has gone down since the pass before the last answer.
C26_Witness ==
    /\ returned.op = "answer"
    /\ Len(answers) >= 2
    /\ LET ranked == compute_condition_scores(db, session, answers).ranked
           before == compute_condition_scores(db, session, SubSeq(answers, 1, Len(answers) - 1))
       IN  /\ Len(ranked) >= 2
           /\ ranked[1].condition # 1
           /\ ranked[1].score > ranked[2].score
           /\ ~AtMost(before.session.top_confidence, session.top_confidence)

\* Stored symptoms whose name contains the complaint, letter case ignored.
MatchedSymptoms ==
    {i \in 1..Len(db.symptoms) :
        Contains(Lower(db.symptoms[i].name), Lower(session.initial_symptom))}

\* C27: the candidate set is fail-open: it is non-empty whenever there is a
\* condition, and it is the set of all conditions when the complaint is empty,
\* matches no stored symptom, or matches only symptoms without a linked
\* condition.
C27_CandidatesFailOpen ==
    (returned.op # "none") =>
        /\ DOMAIN db.snapshots = _candidate_condition_ids(db, session)
        /\ db.nconds > 0 => DOMAIN db.snapshots # {}
        /\ (\/ session.initial_symptom = <<>>
            \/ MatchedSymptoms = {}
            \/ ~\E l \in db.links : l.symptom \in MatchedSymptoms)
           => DOMAIN db.snapshots = 1..db.nconds

\* C27 witness: the complaint matches a stored symptom that no condition is
\* linked to, and all conditions were scored after an answer.
C27_Witness ==
    /\ returned.op = "answer"
    /\ db.nconds >= 2
    /\ MatchedSymptoms # {}
    /\ ~\E l \in db.links : l.symptom \in MatchedSymptoms
    /\ DOMAIN db.snapshots = 1..db.nconds

(***************************************************************************)
(* Claims about the wire schema, checked under SpecFn.                     *)
(***************************************************************************)
\* C22: QuestionItem and DiagnosisResult (with its DiagnosisCondition rows)
\* round-trip through the wire form: from_dict(to_dict(x)) = x, and the wire
\* form carries every field.
C22_RoundTrip ==
    /\ call.fn = "QuestionItem" =>
          /\ call.back = call.item
          /\ DOMAIN call.wire = {"id", "text", "type", "options"}
    /\ call.fn = "DiagnosisResult" =>
          /\ call.back = call.item
          /\ DOMAIN call.wire = {"conditions", "urgency", "advice"}
          /\ Len(call.wire.conditions) = Len(call.item.conditions)

\* C22 witness: a question with an empty type and options, the values from_dict
\* would replace by a default if the key were missing.
C22_Witness ==
    /\ call.fn = "QuestionItem"
    /\ call.item.type = ""
    /\ call.item.id = 0
    /\ call.item.options # <<>>
    /\ call.back = call.item

(***************************************************************************)
(* Claims about the stored flow, checked under SpecFlow.                   *)
(***************************************************************************)
\* C28: in every reachable stored flow the number of recorded answers equals
\* current_index, current_index is at most the number of questions, and the
\* i-th answer carries the id and the text of the i-th question.
C28_AnswersFollowQuestions ==
    store.present =>
        LET flow == store.flow
        IN  /\ Len(flow.answers) = flow.current_index
            /\ flow.current_index <= Len(flow.questions)
            /\ \A i \in 1..Len(flow.answers) :
                  /\ i <= Len(flow.questions)
                  /\ flow.answers[i].question_id = flow.questions[i].id
                  /\ flow.answers[i].question_text = flow.questions[i].text

\* C28 witness: every question answered, the diagnosis stored, and one more
\* answer posted.
C28_Witness ==
    /\ store.present
    /\ Len(store.flow.answers) = REQUIRED_QUESTIONS
    /\ Truthy(store.flow.diagnosis)
    /\ lastOp.op = "answer" /\ lastOp.submitted
    /\ lastOp.index_before = REQUIRED_QUESTIONS

\* C29: submit_answer returns true exactly when after the call every question
\* is answered; once all are answered a further submit_answer returns true and
\* leaves the stored flow unchanged.
C29_DoneExactlyWhenAllAnswered ==
    [][(lastOp'.op = "answer" /\ lastOp'.outcome # "redirect_home" /\ lastOp'.submitted)
        => /\ lastOp'.done <=> /\ Len(store'.flow.answers) >= Len(store'.flow.questions)
                               /\ store'.flow.current_index >= Len(store'.flow.questions)
           /\ lastOp'.index_before = store.flow.current_index
           /\ store.flow.current_index >= Len(store.flow.questions)
                 => (lastOp'.done /\ store' = store)
           /\ store.flow.current_index < Len(store.flow.questions)
                 => Len(store'.flow.answers) = Len(store.flow.answers) + 1]_vars

\* C29 witness: an answer submitted when all questions were answered already.
C29_Witness ==
    /\ lastOp.op = "answer" /\ lastOp.outcome = "redirect_result"
    /\ lastOp.submitted /\ lastOp.done
    /\ lastOp.index_before = Len(store.flow.questions)
    /\ Len(store.flow.answers) = Len(store.flow.questions)

\* C30: a stored diagnosis was computed in the current session (diagCalls
\* counts the calls of generate_diagnosis since the session started); a
\* successful start_session leaves no diagnosis, no diagnosis error and no
\* answers; and without an active session the result is empty and no AI call
\* is made.
C30_DiagnosisOfCurrentSession ==
    /\ []((store.present /\ Truthy(store.flow.diagnosis)) => diagCalls = 1)
    /\ [][(lastOp'.op = "intake" /\ lastOp'.outcome = "started")
            => /\ ~Truthy(store'.flow.diagnosis)
               /\ store'.flow.diagnosis_error = ""
               /\ store'.flow.answers = <<>>
               /\ diagCalls' = 0]_vars
    /\ [][(lastOp'.op = "result" /\ lastOp'.outcome = "rendered" /\ ~lastOp'.invoked)
            => /\ diagCalls = 1
               /\ lastOp'.result.diagnosis = store.flow.diagnosis]_vars
    /\ [][(lastOp'.op = "result" /\ ~has_active_session(store))
            => /\ lastOp'.outcome = "redirect_home"
               /\ diagCalls' = diagCalls
               /\ store' = store]_vars

\* C30 witness: a session started over a flow that held a diagnosis; the new
\* flow holds none.
C30_Witness ==
    /\ lastOp.op = "intake" /\ lastOp.outcome = "started"
    /\ lastOp.replaced
    /\ store.present
    /\ ~Truthy(store.flow.diagnosis)
    /\ store.flow.answers = <<>>
    /\ diagCalls = 0

====
